---- MODULE Spec2Model ----
(***************************************************************************)
(* SteamCaptioner: the caption feed (src/src/feeds/feed.py), the feed      *)
(* manager (src/src/feeds/manager.py) and the WebSocket fan-out channel    *)
(* (src/src/web/server.py) and the audio capture session                   *)
(* (src/src/audio/capture.py) as state machines.                           *)
(*                                                                         *)
(* Python threads interleave between bytecodes; one container operation    *)
(* (deque.append, set.add, set.discard, set.copy, list.append,             *)
(* list.remove, one step of a list iterator) is atomic under the           *)
(* interpreter lock.  A call of add_transcript is therefore a sequence of  *)
(* steps of the calling thread: the state update, the copy of the          *)
(* subscriber set, one step per callback invocation, the return.  The      *)
(* bodies of the callbacks are not part of the repository: a callback      *)
(* returns or raises, and whatever it does to a feed or to the manager     *)
(* (subscribe, unsubscribe, ...) is one of the operations below taken      *)
(* while the invoking thread is inside the notification loop.              *)
(***************************************************************************)
EXTENDS Integers, Sequences, FiniteSets, TLC

\* ---------------------------------------------------------------- bounds
MaxCaptions == 2         \* max_captions given to Feed(...) (the deque's maxlen)
MaxCalls == 3            \* add_transcript calls started in one behaviour
MaxMgrCalls == 2         \* FeedManager.add_transcript calls started in one behaviour
MaxNotifyCalls == 1      \* FeedManager.add_transcript calls started in a behaviour of SpecNotify
MaxWebCalls == 2         \* transcripts delivered while the web server runs
MaxTicks == 1            \* steps of the clock
TickMinutes == 6         \* minutes in one step of the clock
HistoryMinutes == 5      \* websocket_endpoint: feed.get_history(minutes=5)
MaxGlobal == 2           \* length of FeedManager._global_subscribers
MaxStarts == 2           \* AudioCapture.start calls that get past the running check
MaxStops == 1            \* AudioCapture.stop calls started in one behaviour
MaxBlocks == 3           \* blocks the device produces in one behaviour
MaxFrames == 2           \* frames in a block of the device
MaxRate == 3             \* sample rates of the device and of the target
MaxDeviceChannels == 2   \* max_input_channels of the devices tried
QueueMaxSize == 0        \* queue.Queue(): maxsize 0, the queue has no bound

FeedIds == {"f1", "f2"}
Threads == {"t1", "t2"}
Callbacks == {"a", "b"}          \* feed-level subscriber callbacks
GlobalCallbacks == {"g", "h"}    \* callbacks given to subscribe_all
Listeners == {"w1", "w2"}        \* WebSocket connections
ReplayListeners == {"w1"}        \* the connections that SpecWeb opens
Texts == {"", "x"}               \* transcript texts; "" is the empty string
MgrThreads == {"t1"}             \* threads calling FeedManager.add_transcript
MgrCallbacks == {"a"}            \* callbacks subscribed to the feeds of SpecMgr
MgrGlobalCallbacks == {"g"}      \* callbacks given to subscribe_all in SpecMgr
Callers == {"c1", "c2"}          \* threads calling AudioCapture.start and stop
CaptureCallers == {"c1"}         \* the thread that starts and stops in SpecCapture
ConsumerCallbacks == {"p", "q"}  \* callbacks given to AudioCapture.start
StreamIds == 1..MaxStarts        \* the sd.InputStream objects made
WorkerIds == 1..MaxStarts        \* the threads made for _process_audio
MgrTexts == {"x"}                \* texts of the transcripts routed by a manager

VARIABLES
  feeds,               \* FeedManager._feeds: the registered feed ids
  enabled,             \* Feed._enabled, per feed
  captions,            \* Feed._captions, per feed: a deque, oldest first
  current_interim,     \* Feed._current_interim, per feed: Optional[str]
  subscribers,         \* Feed._subscribers, per feed: a set of callbacks
  global_subscribers,  \* FeedManager._global_subscribers: a list
  th,                  \* per thread: the frame of its add_transcript call
  calls,               \* add_transcript calls started so far
  clock,               \* datetime.now()
  log,                 \* history variable: per feed, the transcripts applied, in order
  active_keys,         \* the keys of ConnectionManager.active_connections
  active_connections,  \* ConnectionManager.active_connections, per feed: a set
  ws,                  \* per listener: its websocket_endpoint coroutine and
                       \* the messages its client has received
  gone,                \* the listeners whose client has gone away
  bc,                  \* the transcriber thread inside broadcast_caption
  loop_set,            \* the transcriber thread has an event loop set
  session,             \* AudioCapture: the arguments of the constructor and its outcome
  running,             \* AudioCapture._running
  callback,            \* AudioCapture._callback: "" is None
  stream,              \* AudioCapture._stream: a stream id, 0 is None
  process_thread,      \* AudioCapture._process_thread: a worker id, 0 is None
  audio_queue,         \* AudioCapture._audio_queue: the blocks waiting, oldest first
  streams,             \* per stream id: the sd.InputStream object, if made
  workers,             \* per worker id: the thread running _process_audio
  ctl,                 \* per caller: the frame of its start or stop call
  stop_calls,          \* AudioCapture.stop calls started so far
  produced,            \* blocks the device has handed to _audio_callback so far
  delivered,           \* history variable: the chunks passed to the consumer
                       \* callback and how each call ended
  blocked,             \* the streams whose _audio_callback is waiting inside put
  start_mark,          \* history variable: the blocks the device had handed
                       \* over when the registered callback was registered
  app_running,         \* StreamCaptionerApp._running
  captures,            \* StreamCaptionerApp.captures: the feed ids that are keys
  transcribers,        \* StreamCaptionerApp.transcribers, per feed: the
                       \* transcriber kept under that key, "none" is no key
  app,                 \* the frame of the thread inside start_captioning
  channel,             \* Feed.channel, per feed
  device,              \* the AudioDevice given to start_captioning: its channels
  world,               \* per feed: what Deepgram and the sound device answer
  vmix_client,         \* StreamCaptionerApp.vmix_client is not None
  file_output,         \* StreamCaptionerApp.file_output is not None
  vmix_input,          \* Feed.vmix_input is a non-empty string, per feed
  vmix_calls,          \* history variable: per feed, the texts passed to
                       \* VMixClient.set_input_text
  file_calls,          \* history variable: per feed, the texts passed to
                       \* FileOutput.write_caption
  sub_last,            \* history variable: the last call of Feed.subscribe or
                       \* Feed.unsubscribe that found nothing to do
  got_history,         \* the last call of Feed.get_history and its result
  removed,             \* history variable: the last call of
                       \* FeedManager.remove_feed and its result
  indata,              \* _process_audio: the block taken from the queue, a
                       \* sequence of frames, each with a sample per channel
  channel_data,        \* _process_audio: the mono samples made of indata
  audio_int16,         \* _process_audio: the 16-bit samples made of channel_data
  dsp,                 \* _process_audio: how far the block has been processed
  device_sample_rate,  \* AudioCapture._device_sample_rate
  target_sample_rate   \* AudioCapture.target_sample_rate

webVars == <<active_keys, active_connections, ws, gone, bc, loop_set>>

feedVars == <<feeds, enabled, captions, current_interim, subscribers,
              global_subscribers, th, calls, clock, log>>

capVars == <<session, running, callback, stream, process_thread, audio_queue,
             streams, workers, ctl, stop_calls, produced, delivered, blocked,
             start_mark>>

appVars == <<app_running, captures, transcribers, app, channel, device, world,
             vmix_client, file_output, vmix_input, vmix_calls, file_calls>>

callVars == <<sub_last, got_history, removed>>

dspVars == <<indata, channel_data, audio_int16, dsp, device_sample_rate,
             target_sample_rate>>

vars == <<feeds, enabled, captions, current_interim, subscribers,
          global_subscribers, th, calls, clock, log, webVars, capVars, appVars,
          callVars, dspVars>>

\* ------------------------------------------------------------ data model
\* Optional[str]: None is the empty tuple, a string s is <<s>>.
NoneStr == << >>
SomeStr(s) == <<s>>

\* Optional[Caption]: None is the caption with number 0.
NoCaption == [id |-> <<"", 0>>, feed_id |-> "", text |-> "", is_final |-> FALSE,
              timestamp |-> 0]

Transcript(text, is_final, timestamp) ==
  [text |-> text, is_final |-> is_final, timestamp |-> timestamp]

NoTranscript == Transcript("", FALSE, 0)

\* uuid.uuid4(): a fresh identifier; the n-th caption built for feed f is <<f, n>>.
FreshId(f) == <<f, Len(log[f]) + 1>>

\* Caption(id=..., feed_id=self.id, text=transcript.text, ...)
MakeCaption(f, tr) ==
  [id |-> FreshId(f), feed_id |-> f, text |-> tr.text, is_final |-> tr.is_final,
   timestamp |-> tr.timestamp]

\* deque(maxlen=n).append(x): the oldest entry is dropped when the deque is full.
DequeAppendDropNewest(d, x, maxlen) ==
  IF Len(d) < maxlen THEN Append(d, x) ELSE d

DequeAppend(d, x, maxlen) ==
  IF maxlen = 0 THEN << >>
  ELSE IF Len(d) < maxlen THEN Append(d, x)
  ELSE Append(Tail(d), x)

\* Python truthiness of an Optional[str]: None and "" are false.
Truthy(o) == o # NoneStr /\ o[1] # ""

\* Feed.get_current_text
get_current_text(f) ==
  IF Truthy(current_interim[f]) THEN current_interim[f][1]
  ELSE IF Len(captions[f]) > 0 THEN captions[f][Len(captions[f])].text
  ELSE ""

\* ------------------------------------------------------------ the threads
IdleFrame ==
  [pc |-> "idle", via |-> "", feed_id |-> "", transcript |-> NoTranscript,
   caption |-> NoCaption, todo |-> {}, gidx |-> 0, ret |-> NoCaption,
   \* history fields, read by the properties only
   snap |-> {},          \* the feed's subscribers when the copy was taken
   inv |-> [c \in Callbacks |-> 0],   \* invocations of each feed callback
   ginv |-> << >>,       \* the global callbacks invoked, with their arguments
   glist0 |-> << >>,     \* the global list when its loop began
   arg |-> NoCaption,    \* the caption passed to the feed callback invoked last
   raised |-> FALSE,     \* the callback invoked last raised
   exc |-> FALSE]        \* an exception left add_transcript

\* A WebSocket that no client has opened yet.
NewSocket ==
  [pc |-> "new", feed_id |-> "", state0 |-> 0, hist |-> << >>, received |-> << >>]

\* A socket whose endpoint coroutine has ended; what its client received
\* is no longer recorded.
ClosedSocket == [NewSocket EXCEPT !.pc = "closed"]

\* The transcriber thread outside broadcast_caption; last tells how its
\* last call of _on_caption ended.
IdleBroadcast ==
  [pc |-> "idle", feed_id |-> "", caption |-> NoCaption, size0 |-> 0,
   visited |-> {}, dead |-> {}, in_try |-> FALSE, last |-> ""]

\* _on_caption has returned to FeedManager.add_transcript.
BroadcastOver(what) == [IdleBroadcast EXCEPT !.last = what]

\* The frame of a call that has returned value r to its caller.
Returned(fr, r) ==
  [IdleFrame EXCEPT !.pc = "done", !.via = fr.via, !.feed_id = fr.feed_id,
                    !.caption = fr.caption, !.ret = r]

\* A caller that is in no call of start or stop.  last is what its last
\* call did; alone tells that no other call ran while it ran.
IdleCall == [pc |-> "idle", cb |-> "", alone |-> TRUE, last |-> ""]

\* A thread that was not made yet.
NoWorker == [pc |-> "none", block |-> 0]

\* No AudioCapture object was constructed.
NoSession == [state |-> "none", device_channels |-> 0, channels |-> << >>]

\* AudioCapture.__init__, lines 57-61: the fields of a new session.
NewFields ==
  /\ running = FALSE
  /\ callback = ""
  /\ stream = 0
  /\ process_thread = 0
  /\ audio_queue = << >>
  /\ streams = [s \in StreamIds |-> "none"]
  /\ workers = [k \in WorkerIds |-> NoWorker]
  /\ ctl = [c \in Callers |-> IdleCall]
  /\ stop_calls = 0
  /\ produced = 0
  /\ delivered = << >>
  /\ blocked = {}
  /\ start_mark = 0

NoCapture ==
  /\ session = NoSession
  /\ NewFields

\* No call of the feed's query and subscription methods was made.
NoCall == [op |-> "", cb |-> "", raised |-> FALSE]

NoHistory ==
  [feed_id |-> "", minutes |-> 0, result |-> << >>, deque |-> << >>, now |-> 0]

NoRemove == [feed_id |-> "", result |-> FALSE]

NoCalls ==
  /\ sub_last = NoCall
  /\ got_history = NoHistory
  /\ removed = NoRemove

\* The worker holds no block.
NoDsp ==
  /\ indata = << >>
  /\ channel_data = << >>
  /\ audio_int16 = << >>
  /\ dsp = "none"
  /\ device_sample_rate = 1
  /\ target_sample_rate = 1

\* A thread that is not inside start_captioning.
IdleApp == [pc |-> "idle", todo |-> << >>, last |-> ""]

\* What the services outside the program answer for a feed: Deepgram
\* accepts the connection or not, the sound device opens and starts the
\* stream or not.
GoodWorld == [transcriber |-> TRUE, open |-> "ok"]

\* StreamCaptionerApp.__init__, lines 28-40, with a configuration that has
\* the vMix and file outputs switched off (initialize, lines 49 and 56).
NoApp ==
  /\ app_running = FALSE
  /\ captures = {}
  /\ transcribers = [f \in FeedIds |-> "none"]
  /\ app = IdleApp
  /\ channel = [f \in FeedIds |-> 0]
  /\ device = 0
  /\ world = [f \in FeedIds |-> GoodWorld]
  /\ vmix_client = FALSE
  /\ file_output = FALSE
  /\ vmix_input = [f \in FeedIds |-> FALSE]
  /\ vmix_calls = [f \in FeedIds |-> << >>]
  /\ file_calls = [f \in FeedIds |-> << >>]

Init ==
  /\ feeds = {}
  /\ enabled = [f \in FeedIds |-> FALSE]
  /\ captions = [f \in FeedIds |-> << >>]
  /\ current_interim = [f \in FeedIds |-> NoneStr]
  /\ subscribers = [f \in FeedIds |-> {}]
  /\ global_subscribers = << >>
  /\ th = [t \in Threads |-> IdleFrame]
  /\ calls = 0
  /\ clock = 0
  /\ log = [f \in FeedIds |-> << >>]
  /\ active_keys = {}
  /\ active_connections = [f \in FeedIds |-> {}]
  /\ ws = [w \in Listeners |-> NewSocket]
  /\ gone = {}
  /\ bc = IdleBroadcast
  /\ loop_set = FALSE
  /\ NoCapture
  /\ NoApp
  /\ NoCalls
  /\ NoDsp

\* ------------------------------------------------- FeedManager: registry
\* FeedManager.create_feed: a new Feed, enabled as the configuration says.
create_feed(f, en) ==
  /\ f \notin feeds
  /\ feeds' = feeds \cup {f}
  /\ enabled' = [enabled EXCEPT ![f] = en]
  /\ UNCHANGED <<capVars, appVars, callVars, dspVars, webVars, captions, current_interim, subscribers, global_subscribers,
                 th, calls, clock, log>>

\* FeedManager.get_feed: self._feeds.get(feed_id); "" is None
get_feed(f) == IF f \in feeds THEN f ELSE ""

\* FeedManager.list_feeds: the feeds of the dictionary
list_feeds == feeds

\* FeedManager.remove_feed, lines 83-86: the value returned
RemoveResultAlways(f) == TRUE

RemoveResult(f) == f \in feeds

\* FeedManager.remove_feed(feed_id): the key is deleted if it is there.
\* The Feed object lives on in the calls that hold it.
remove_feed(f) ==
  /\ removed' = [feed_id |-> f, result |-> RemoveResult(f)]
  /\ feeds' = IF f \in feeds THEN feeds \ {f} ELSE feeds
  /\ UNCHANGED <<capVars, appVars, dspVars, webVars, enabled, captions,
                 current_interim, subscribers, global_subscribers, th, calls,
                 clock, log, sub_last, got_history>>

\* Feed.enabled setter
set_enabled(f, en) ==
  /\ f \in feeds
  /\ enabled[f] # en
  /\ enabled' = [enabled EXCEPT ![f] = en]
  /\ UNCHANGED <<capVars, appVars, callVars, dspVars, webVars, feeds, captions, current_interim, subscribers,
                 global_subscribers, th, calls, clock, log>>

\* Feed.subscribe: set.add
subscribe(f, cb) ==
  /\ f \in feeds
  /\ cb \notin subscribers[f]
  /\ subscribers' = [subscribers EXCEPT ![f] = @ \cup {cb}]
  /\ UNCHANGED <<capVars, appVars, callVars, dspVars, webVars, feeds, enabled, captions, current_interim, global_subscribers,
                 th, calls, clock, log>>

\* Feed.unsubscribe: set.discard
unsubscribe(f, cb) ==
  /\ f \in feeds
  /\ cb \in subscribers[f]
  /\ subscribers' = [subscribers EXCEPT ![f] = @ \ {cb}]
  /\ UNCHANGED <<capVars, appVars, callVars, dspVars, webVars, feeds, enabled, captions, current_interim, global_subscribers,
                 th, calls, clock, log>>

\* Feed.subscribe of a callback that is subscribed: set.add of a member.
SubscribeAgain(f, cb) ==
  /\ f \in feeds
  /\ cb \in subscribers[f]
  /\ subscribers' = [subscribers EXCEPT ![f] = @ \cup {cb}]
  /\ sub_last' = [op |-> "subscribe", cb |-> cb, raised |-> FALSE]
  /\ UNCHANGED <<capVars, appVars, dspVars, webVars, feeds, enabled, captions,
                 current_interim, global_subscribers, th, calls, clock, log,
                 got_history, removed>>

\* set.discard(x) raises nothing; set.remove(x) raises KeyError when x is
\* not a member.
RemoveRaises(members, x) == x \notin members

DiscardRaises(members, x) == FALSE

\* Feed.unsubscribe of a callback that is not subscribed: set.discard of a
\* non-member.
UnsubscribeAbsent(f, cb) ==
  /\ f \in feeds
  /\ cb \notin subscribers[f]
  /\ subscribers' = [subscribers EXCEPT ![f] = @ \ {cb}]
  /\ sub_last' = [op |-> "unsubscribe", cb |-> cb,
                  raised |-> DiscardRaises(subscribers[f], cb)]
  /\ UNCHANGED <<capVars, appVars, dspVars, webVars, feeds, enabled, captions,
                 current_interim, global_subscribers, th, calls, clock, log,
                 got_history, removed>>

\* list.remove(x): the first occurrence of x is removed.
RECURSIVE ListRemove(_, _)
ListRemove(l, x) ==
  IF l = << >> THEN << >>
  ELSE IF Head(l) = x THEN Tail(l)
  ELSE <<Head(l)>> \o ListRemove(Tail(l), x)

InList(l, x) == \E i \in 1..Len(l) : l[i] = x

\* FeedManager.subscribe_all: list.append
subscribe_all(cb) ==
  /\ Len(global_subscribers) < MaxGlobal
  /\ global_subscribers' = Append(global_subscribers, cb)
  /\ UNCHANGED <<capVars, appVars, callVars, dspVars, webVars, feeds, enabled, captions, current_interim, subscribers,
                 th, calls, clock, log>>

\* FeedManager.unsubscribe_all
unsubscribe_all(cb) ==
  /\ InList(global_subscribers, cb)
  /\ global_subscribers' = ListRemove(global_subscribers, cb)
  /\ UNCHANGED <<capVars, appVars, callVars, dspVars, webVars, feeds, enabled, captions, current_interim, subscribers,
                 th, calls, clock, log>>

\* --------------------------------------------------- Feed.add_transcript
\* FeedManager.add_transcript, lines 99-100: feed = self.get_feed(feed_id);
\* if feed and feed.enabled
DeliverableIgnoringEnabled(f) == f \in feeds

Deliverable(f) == f \in feeds /\ enabled[f]

\* A thread calls FeedManager.add_transcript(f, Transcript(text, is_final)).
\* The transcript's timestamp is datetime.now() (its default_factory).
MgrAddTranscript(t, f, text, fin) ==
  /\ th[t].pc = "idle"
  /\ calls < MaxMgrCalls
  /\ calls' = calls + 1
  /\ th' = [th EXCEPT ![t] =
        IF Deliverable(f)
        THEN [IdleFrame EXCEPT !.pc = "update", !.via = "mgr", !.feed_id = f,
                               !.transcript = Transcript(text, fin, clock)]
        ELSE [IdleFrame EXCEPT !.pc = "done", !.via = "mgr", !.feed_id = f]]
  /\ UNCHANGED <<capVars, appVars, callVars, dspVars, webVars, feeds, enabled, captions, current_interim, subscribers,
                 global_subscribers, clock, log>>

\* A thread calls Feed.add_transcript on a feed object directly.
FeedAddTranscript(t, f, text, fin) ==
  /\ th[t].pc = "idle"
  /\ calls < MaxCalls
  /\ f \in feeds
  /\ calls' = calls + 1
  /\ th' = [th EXCEPT ![t] =
        [IdleFrame EXCEPT !.pc = "update", !.via = "feed", !.feed_id = f,
                          !.transcript = Transcript(text, fin, clock)]]
  /\ UNCHANGED <<capVars, appVars, callVars, dspVars, webVars, feeds, enabled, captions, current_interim, subscribers,
                 global_subscribers, clock, log>>

\* Feed.add_transcript, lines 88-92: the feed whose state the call writes.
TargetFeedShared(f) == "f1"

TargetFeed(f) == f

\* lines 88-89 and 91: the history after the transcript.
CaptionsAfterStoresAll(d, cap) == DequeAppend(d, cap, MaxCaptions)

CaptionsAfter(d, cap) ==
  IF cap.is_final THEN DequeAppend(d, cap, MaxCaptions) ELSE d

\* lines 90 and 92: the interim slot after the transcript.
InterimAfterFinalKeeps(o, tr) ==
  IF tr.is_final THEN o ELSE SomeStr(tr.text)

InterimAfter(o, tr) ==
  IF tr.is_final THEN NoneStr ELSE SomeStr(tr.text)

\* Feed.add_transcript, lines 79-92: build the caption, update the state.
FeedUpdate(t) ==
  LET fr == th[t]
      f == fr.feed_id
      g == TargetFeed(f)
      cap == MakeCaption(f, fr.transcript)
  IN /\ fr.pc = "update"
     /\ captions' = [captions EXCEPT ![g] = CaptionsAfter(@, cap)]
     /\ current_interim' = [current_interim EXCEPT ![g] = InterimAfter(@, fr.transcript)]
     /\ log' = [log EXCEPT ![f] = Append(@, cap)]
     /\ th' = [th EXCEPT ![t] = [fr EXCEPT !.pc = "copy", !.caption = cap,
                                            !.transcript = NoTranscript]]
     /\ UNCHANGED <<capVars, appVars, callVars, dspVars, webVars, feeds, enabled, subscribers, global_subscribers, calls, clock>>

\* Feed._notify_subscribers, line 135: self._subscribers.copy()
SubscribersCopy(f) == subscribers[f]

FeedCopy(t) ==
  LET fr == th[t]
  IN /\ fr.pc = "copy"
     /\ th' = [th EXCEPT ![t] = [fr EXCEPT !.pc = "notify",
                                            !.todo = SubscribersCopy(fr.feed_id),
                                            !.snap = subscribers[fr.feed_id]]]
     /\ UNCHANGED <<capVars, appVars, callVars, dspVars, webVars, feeds, enabled, captions, current_interim, subscribers,
                    global_subscribers, calls, clock, log>>

\* lines 136-139: try: callback(caption) / except Exception: print(...).
\* The frame after callback cb returned or raised: the loop goes on.
AfterFeedCallbackBreak(fr, cb, outcome) == [fr EXCEPT !.todo = {}]

AfterFeedCallback(fr, cb, outcome) == [fr EXCEPT !.todo = @ \ {cb}]

Outcomes == {"return", "raise"}

\* One iteration of the loop of _notify_subscribers: callback(caption).
\* A set is iterated in no particular order.
FeedNotify(t, cb, outcome) ==
  LET fr == th[t]
      called == [fr EXCEPT !.inv[cb] = @ + 1,
                           !.arg = fr.caption,
                           !.raised = (outcome = "raise")]
  IN /\ fr.pc = "notify"
     /\ cb \in fr.todo
     /\ th' = [th EXCEPT ![t] = AfterFeedCallback(called, cb, outcome)]
     /\ UNCHANGED <<capVars, appVars, callVars, dspVars, webVars, feeds, enabled, captions, current_interim, subscribers,
                    global_subscribers, calls, clock, log>>

\* Feed.add_transcript, line 97: return caption.  Called by the manager
\* (line 101), the list iterator of line 104 is created next.
FeedReturn(t) ==
  LET fr == th[t]
  IN /\ fr.pc = "notify"
     /\ fr.todo = {}
     /\ th' = [th EXCEPT ![t] =
           IF fr.via = "mgr"
           THEN [fr EXCEPT !.pc = "gnotify", !.gidx = 0,
                           !.glist0 = global_subscribers]
           ELSE Returned(fr, fr.caption)]
     /\ UNCHANGED <<capVars, appVars, callVars, dspVars, webVars, feeds, enabled, captions, current_interim, subscribers,
                    global_subscribers, calls, clock, log>>

\* FeedManager.add_transcript, lines 105-108: try: callback(feed_id, caption)
AfterGlobalCallbackNoCatch(fr, outcome) ==
  IF outcome = "raise"
  THEN [Returned(fr, NoCaption) EXCEPT !.exc = TRUE]
  ELSE [fr EXCEPT !.gidx = @ + 1]

AfterGlobalCallback(fr, outcome) == [fr EXCEPT !.gidx = @ + 1]

\* line 106: the arguments of the global callback
GlobalArgs(fr) == <<fr.feed_id, fr.caption>>

\* One iteration of "for callback in self._global_subscribers": the list
\* iterator holds an index into the list itself (no copy is taken) and
\* compares it with the list's current length.
GlobalNotify(t, outcome) ==
  LET fr == th[t]
      cb == global_subscribers[fr.gidx + 1]
      called == [fr EXCEPT !.ginv = Append(@, <<cb>> \o GlobalArgs(fr) \o <<outcome>>),
                           !.raised = (outcome = "raise")]
  IN /\ fr.pc = "gnotify"
     /\ fr.gidx < Len(global_subscribers)
     /\ th' = [th EXCEPT ![t] = AfterGlobalCallback(called, outcome)]
     /\ UNCHANGED <<capVars, appVars, callVars, dspVars, webVars, feeds, enabled, captions, current_interim, subscribers,
                    global_subscribers, calls, clock, log>>

\* FeedManager.add_transcript, line 110: return caption
MgrReturn(t) ==
  LET fr == th[t]
  IN /\ fr.pc = "gnotify"
     /\ fr.gidx >= Len(global_subscribers)
     /\ th' = [th EXCEPT ![t] = Returned(fr, fr.caption)]
     /\ UNCHANGED <<capVars, appVars, callVars, dspVars, webVars, feeds, enabled, captions, current_interim, subscribers,
                    global_subscribers, calls, clock, log>>

\* The caller takes the result; the thread is free for its next call.
Finish(t) ==
  /\ th[t].pc = "done"
  /\ th' = [th EXCEPT ![t] = IdleFrame]
  /\ UNCHANGED <<capVars, appVars, callVars, dspVars, webVars, feeds, enabled, captions, current_interim, subscribers,
                 global_subscribers, calls, clock, log>>

\* ------------------------------------------------ the fan-out channel
\* Feed.get_history(minutes): the captions not older than minutes, in the
\* order of the deque.
get_history_newer(f, minutes) ==
  LET Recent(c) == c.timestamp > clock - minutes
  IN SelectSeq(captions[f], Recent)

get_history(f, minutes) ==
  LET Recent(c) == c.timestamp >= clock - minutes
  IN SelectSeq(captions[f], Recent)

\* The windows that callers ask for: the five minutes of the endpoint, and
\* one that reaches back exactly to the previous tick of the clock.
Windows == {HistoryMinutes, TickMinutes}

\* A client calls feed.get_history(minutes); deque and now are history
\* fields, the feed's captions and the time at the call.
GetHistory(f, minutes) ==
  /\ f \in feeds
  /\ got_history' = [feed_id |-> f, minutes |-> minutes,
                     result |-> get_history(f, minutes),
                     deque |-> captions[f], now |-> clock]
  /\ UNCHANGED <<capVars, appVars, dspVars, webVars, feeds, enabled, captions,
                 current_interim, subscribers, global_subscribers, th, calls,
                 clock, log, sub_last, removed>>

\* reversed(l)
Reversed(l) == [i \in 1..Len(l) |-> l[Len(l) + 1 - i]]

\* websocket_endpoint, line 143: the order in which the history is sent.
ReplayOrder(history) == Reversed(history)

\* datetime.isoformat()
IsoFormat(ts) == <<"iso", ts>>

\* Caption.to_dict (the confidence, which no operation reads, is left out)
to_dict(c) ==
  [id |-> c.id, feed_id |-> c.feed_id, text |-> c.text, is_final |-> c.is_final,
   timestamp |-> IsoFormat(c.timestamp)]

NoDict == to_dict(NoCaption)

\* The messages a client receives.  origin is a history field: whether
\* the endpoint's replay or a broadcast sent the message.
HistoryStartMsg(n) ==
  [type |-> "history_start", count |-> n, body |-> NoDict, origin |-> "replay"]

HistoryEndMsg ==
  [type |-> "history_end", count |-> 0, body |-> NoDict, origin |-> "replay"]

CaptionMsg(c, origin) ==
  [type |-> "caption", count |-> 0, body |-> to_dict(c), origin |-> origin]

\* ConnectionManager.disconnect
Disconnected(conns, w, f) ==
  IF f \in active_keys THEN [conns EXCEPT ![f] = @ \ {w}] ELSE conns

\* websocket_endpoint, lines 123-130: the feed is looked up; without it the
\* socket is closed with code 4004, else ConnectionManager.connect accepts
\* the socket and adds it to the feed's set.
WsConnect(w, f) ==
  /\ ws[w].pc = "new"
  /\ IF f \in feeds
     THEN /\ active_keys' = active_keys \cup {f}
          /\ active_connections' = [active_connections EXCEPT ![f] = @ \cup {w}]
          /\ ws' = [ws EXCEPT ![w] = [@ EXCEPT !.pc = "history", !.feed_id = f]]
     ELSE /\ ws' = [ws EXCEPT ![w] = ClosedSocket]
          /\ UNCHANGED <<active_keys, active_connections>>
  /\ UNCHANGED <<capVars, appVars, callVars, dspVars, feeds, enabled, captions, current_interim, subscribers,
                 global_subscribers, th, calls, clock, log, gone, bc, loop_set>>

\* The state counter of a feed's deque: it changes with every append.
DequeState(f) == Len(SelectSeq(log[f], LAMBDA c : c.is_final))

\* A send on socket w raises when its client has gone away; the endpoint's
\* "except Exception" then calls manager.disconnect and the coroutine ends.
WsSendFails(w) ==
  /\ ws[w].pc \in {"scan", "replay"}
  /\ w \in gone
  /\ ws[w].pc = "scan" => /\ DequeState(ws[w].feed_id) = ws[w].state0
                          /\ get_history(ws[w].feed_id, HistoryMinutes) # << >>
  /\ active_connections' = Disconnected(active_connections, w, ws[w].feed_id)
  /\ ws' = [ws EXCEPT ![w] = ClosedSocket]
  /\ gone' = gone \ {w}
  /\ UNCHANGED <<capVars, appVars, callVars, dspVars, feeds, enabled, captions, current_interim, subscribers,
                 global_subscribers, th, calls, clock, log, active_keys,
                 bc, loop_set>>

\* line 134, Feed.get_history: the list comprehension starts to iterate
\* the deque; the iterator remembers the deque's state counter.
WsHistoryScan(w) ==
  /\ ws[w].pc = "history"
  /\ ws' = [ws EXCEPT ![w] = [@ EXCEPT !.pc = "scan",
                                       !.state0 = DequeState(ws[w].feed_id)]]
  /\ UNCHANGED <<capVars, appVars, callVars, dspVars, feeds, enabled, captions, current_interim, subscribers,
                 global_subscribers, th, calls, clock, log, active_keys,
                 active_connections, gone, bc, loop_set>>

\* The transcriber thread appended to the deque during the iteration: the
\* iterator raises RuntimeError ("deque mutated during iteration"), the
\* endpoint's "except Exception" calls manager.disconnect.
WsHistoryMutated(w) ==
  /\ ws[w].pc = "scan"
  /\ DequeState(ws[w].feed_id) # ws[w].state0
  /\ active_connections' = Disconnected(active_connections, w, ws[w].feed_id)
  /\ ws' = [ws EXCEPT ![w] = ClosedSocket]
  /\ gone' = gone \ {w}
  /\ UNCHANGED <<capVars, appVars, callVars, dspVars, feeds, enabled, captions, current_interim, subscribers,
                 global_subscribers, th, calls, clock, log, active_keys,
                 bc, loop_set>>

\* lines 134-140: history = feed.get_history(minutes=5); if history: send
\* history_start with its length.  An empty history sends nothing and the
\* endpoint goes to its receive loop.
WsHistoryStart(w) ==
  LET history == get_history(ws[w].feed_id, HistoryMinutes)
  IN /\ ws[w].pc = "scan"
     /\ DequeState(ws[w].feed_id) = ws[w].state0
     /\ history # << >> => w \notin gone
     /\ ws' = [ws EXCEPT ![w] =
           IF history # << >>
           THEN [@ EXCEPT !.pc = "replay", !.hist = ReplayOrder(history),
                          !.received = Append(@, HistoryStartMsg(Len(history)))]
           ELSE [@ EXCEPT !.pc = "live"]]
     /\ UNCHANGED <<capVars, appVars, callVars, dspVars, feeds, enabled, captions, current_interim, subscribers,
                    global_subscribers, th, calls, clock, log, active_keys,
                    active_connections, gone, bc, loop_set>>

\* lines 143-144: one iteration of the replay loop
WsReplay(w) ==
  /\ ws[w].pc = "replay"
  /\ ws[w].hist # << >>
  /\ w \notin gone
  /\ ws' = [ws EXCEPT ![w] =
        [@ EXCEPT !.hist = Tail(@),
                  !.received = Append(@, CaptionMsg(Head(ws[w].hist), "replay"))]]
  /\ UNCHANGED <<capVars, appVars, callVars, dspVars, feeds, enabled, captions, current_interim, subscribers,
                 global_subscribers, th, calls, clock, log, active_keys,
                 active_connections, gone, bc, loop_set>>

\* lines 146-148: history_end, then the receive loop
WsHistoryEnd(w) ==
  /\ ws[w].pc = "replay"
  /\ ws[w].hist = << >>
  /\ w \notin gone
  /\ ws' = [ws EXCEPT ![w] =
        [@ EXCEPT !.pc = "live", !.received = Append(@, HistoryEndMsg)]]
  /\ UNCHANGED <<capVars, appVars, callVars, dspVars, feeds, enabled, captions, current_interim, subscribers,
                 global_subscribers, th, calls, clock, log, active_keys,
                 active_connections, gone, bc, loop_set>>

\* The client of w goes away (the peer closes or the network drops).
ClientGone(w) ==
  /\ ws[w].pc \in {"history", "scan", "replay", "live"}
  /\ w \notin gone
  /\ gone' = gone \cup {w}
  /\ UNCHANGED <<capVars, appVars, callVars, dspVars, feeds, enabled, captions, current_interim, subscribers,
                 global_subscribers, th, calls, clock, log, active_keys,
                 active_connections, ws, bc, loop_set>>

\* lines 151-165: in the receive loop receive_text (or the keepalive
\* send) raises for a client that has gone away; manager.disconnect
\* removes the socket.  The ping and pong texts of the loop are left out.
WsDisconnect(w) ==
  /\ ws[w].pc = "live"
  /\ w \in gone
  /\ active_connections' = Disconnected(active_connections, w, ws[w].feed_id)
  /\ ws' = [ws EXCEPT ![w] = ClosedSocket]
  /\ gone' = gone \ {w}
  /\ UNCHANGED <<capVars, appVars, callVars, dspVars, feeds, enabled, captions, current_interim, subscribers,
                 global_subscribers, th, calls, clock, log, active_keys,
                 bc, loop_set>>

\* time passes
Tick ==
  /\ clock < MaxTicks * TickMinutes
  /\ clock' = clock + TickMinutes
  /\ UNCHANGED <<capVars, appVars, callVars, dspVars, feeds, enabled, captions, current_interim, subscribers,
                 global_subscribers, th, calls, log, webVars>>

\* _on_caption, lines 68-74: a configured sink is called with the caption
\* text before broadcast_caption is, whatever listens to the feed.
SinkCalledIfListening(configured, f) ==
  configured /\ f \in active_keys /\ active_connections[f] # {}

SinkCalled(configured, f) == configured

\* The transcriber thread of feed f delivers a transcript while the web
\* server runs: DeepgramTranscriber._handle_transcript calls on_transcript,
\* that is FeedManager.add_transcript(f, Transcript(text, is_final)).  The
\* application subscribes no callback to a feed and one, _on_caption, to the
\* manager (main.py, line 60): the call updates the feed (feed.py, lines
\* 79-92) and reaches _on_caption, which calls the vMix and file sinks
\* that are configured and then broadcast_caption.
WebAddTranscript(f, text, fin) ==
  LET cap == MakeCaption(f, Transcript(text, fin, clock))
  IN /\ bc.pc = "idle"
     /\ calls < MaxWebCalls
     /\ Deliverable(f)
     /\ subscribers[f] = {}
     /\ calls' = calls + 1
     /\ captions' = [captions EXCEPT ![TargetFeed(f)] = CaptionsAfter(@, cap)]
     /\ current_interim' = [current_interim EXCEPT ![TargetFeed(f)] =
                               InterimAfter(@, Transcript(text, fin, clock))]
     /\ log' = [log EXCEPT ![f] = Append(@, cap)]
     /\ vmix_calls' = [vmix_calls EXCEPT ![f] =
                          IF SinkCalled(vmix_client /\ vmix_input[f], f)
                          THEN Append(@, cap.text) ELSE @]
     /\ file_calls' = [file_calls EXCEPT ![f] =
                          IF SinkCalled(file_output, f)
                          THEN Append(@, cap.text) ELSE @]
     /\ bc' = [IdleBroadcast EXCEPT !.pc = "on_caption", !.feed_id = f,
                                    !.caption = cap]
     /\ UNCHANGED <<capVars, callVars, dspVars, feeds, enabled, subscribers,
                    global_subscribers, th, clock, active_keys, active_connections, ws, gone, loop_set,
                    app_running, captures, transcribers, app, channel, device,
                    world, vmix_client, file_output, vmix_input>>

\* _on_caption, lines 77-80: "except Exception: pass" around
\* broadcast_caption; the error does not reach FeedManager.
OnCaptionExcept == BroadcastOver("swallowed")

\* The frame of the transcriber thread when broadcast_to_feed begins:
\* "if feed_id in self.active_connections", then the iterator of the set
\* itself (no copy), which remembers the set's size.
BroadcastStarted(fr, in_try) ==
  IF fr.feed_id \in active_keys
  THEN [fr EXCEPT !.pc = "iter", !.in_try = in_try,
                  !.size0 = Cardinality(active_connections[fr.feed_id]),
                  !.visited = {}, !.dead = {}]
  ELSE BroadcastOver("no_listeners")

\* broadcast_caption, lines 179-189.  asyncio.get_event_loop() raises
\* RuntimeError in a thread that has no event loop set; the handler makes
\* one, sets it and runs the broadcast outside the try.  Once a loop is set
\* the broadcast runs inside the try, by run_until_complete.
BroadcastBegin ==
  /\ bc.pc = "on_caption"
  /\ bc' = BroadcastStarted(bc, loop_set)
  /\ loop_set' = TRUE
  /\ UNCHANGED <<capVars, appVars, callVars, dspVars, feeds, enabled, captions, current_interim, subscribers,
                 global_subscribers, th, calls, clock, log, active_keys,
                 active_connections, ws, gone>>

\* broadcast_to_feed, lines 42-45: send_json to connection w raised; the
\* except clause notes w in dead_connections and the loop goes on.
AfterSendFailsForgets(fr, w) == [fr EXCEPT !.visited = @ \cup {w}]

AfterSendFails(fr, w) == [fr EXCEPT !.visited = @ \cup {w}, !.dead = @ \cup {w}]

\* broadcast_to_feed, lines 41-45: one iteration.  send_json delivers the
\* message, or raises for a client that has gone away and the connection
\* is noted as dead.
BroadcastSend(w) ==
  /\ bc.pc = "iter"
  /\ Cardinality(active_connections[bc.feed_id]) = bc.size0
  /\ w \in active_connections[bc.feed_id] \ bc.visited
  /\ IF w \in gone
     THEN /\ bc' = AfterSendFails(bc, w)
          /\ UNCHANGED ws
     ELSE /\ bc' = [bc EXCEPT !.visited = @ \cup {w}]
          /\ ws' = [ws EXCEPT ![w].received = Append(@, CaptionMsg(bc.caption, "live"))]
  /\ UNCHANGED <<capVars, appVars, callVars, dspVars, feeds, enabled, captions, current_interim, subscribers,
                 global_subscribers, th, calls, clock, log, active_keys,
                 active_connections, gone, loop_set>>

\* The set iterator raises RuntimeError ("Set changed size during
\* iteration") when the set's size is no longer the one it remembers.
\* Raised inside the try of broadcast_caption, the handler of line 185
\* takes it and runs the broadcast once more; raised outside, it reaches
\* _on_caption, whose "except Exception: pass" drops it.
BroadcastSetChanged ==
  /\ bc.pc = "iter"
  /\ Cardinality(active_connections[bc.feed_id]) # bc.size0
  /\ bc' = IF bc.in_try THEN BroadcastStarted(bc, FALSE) ELSE OnCaptionExcept
  /\ UNCHANGED <<capVars, appVars, callVars, dspVars, feeds, enabled, captions, current_interim, subscribers,
                 global_subscribers, th, calls, clock, log, active_keys,
                 active_connections, ws, gone, loop_set>>

\* broadcast_to_feed, lines 47-49: the loop is over, the dead connections
\* are discarded.
BroadcastEnd ==
  /\ bc.pc = "iter"
  /\ Cardinality(active_connections[bc.feed_id]) = bc.size0
  /\ active_connections[bc.feed_id] \ bc.visited = {}
  /\ active_connections' = [active_connections EXCEPT ![bc.feed_id] = @ \ bc.dead]
  /\ bc' = BroadcastOver("sent")
  /\ UNCHANGED <<capVars, appVars, callVars, dspVars, feeds, enabled, captions, current_interim, subscribers,
                 global_subscribers, th, calls, clock, log, active_keys,
                 ws, gone, loop_set>>

\* ------------------------------------------------ the capture session
\* AudioCapture.__init__, lines 68-73: every selected channel is an index
\* of the device's input channels.
ChannelsValidUpToCount(channels, device_channels) ==
  \A i \in 1..Len(channels) : channels[i] >= 0 /\ channels[i] <= device_channels

ChannelsValid(channels, device_channels) ==
  \A i \in 1..Len(channels) : ~(channels[i] < 0 \/ channels[i] >= device_channels)

\* The channel indices and lists given to the constructor.
ChannelIndices == (0 - 1)..MaxDeviceChannels
ChannelLists ==
  {<<a>> : a \in ChannelIndices} \cup {<<a, b>> : a \in {0}, b \in ChannelIndices}

\* AudioCapture(device_id, channels): the fields are set, the device is
\* asked for its channel count, the channels are validated; ValueError
\* leaves the caller without a session object.
AudioCaptureInit(device_channels, channels) ==
  /\ session.state = "none"
  /\ session' = [state |-> IF ChannelsValid(channels, device_channels)
                           THEN "ok" ELSE "ValueError",
                 device_channels |-> device_channels,
                 channels |-> channels]
  /\ UNCHANGED <<feedVars, webVars, appVars, callVars, dspVars, running, callback, stream, process_thread,
                 audio_queue, streams, workers, ctl, stop_calls, produced,
                 delivered, blocked, start_mark>>

\* The frames after a step of caller c that leaves c with frame fr: a
\* call of another caller that is in progress has not run alone.
CtlStep(c, fr) ==
  [d \in Callers |->
     IF d = c THEN fr
     ELSE IF ctl[d].pc # "idle" THEN [ctl[d] EXCEPT !.alone = FALSE]
     ELSE ctl[d]]

\* No other caller is inside start or stop.
Alone(c) == \A d \in Callers \ {c} : ctl[d].pc = "idle"

\* Caller c is back from its call.
CallOver(c, what) == [ctl[c] EXCEPT !.pc = "idle", !.last = what]

\* The starts that are past the check of line 82.
StartsPassed ==
  Cardinality({k \in WorkerIds : workers[k].pc # "none"})
  + Cardinality({c \in Callers : ctl[c].pc \in {"start_set", "start_spawn"}})

\* The callback given to a start call.  The session only stores and calls
\* it: every call is given a callback other than the one registered, which
\* tells the callbacks of two start calls apart.
FreshCallback == CHOOSE cb \in ConsumerCallbacks : cb # callback

\* start, line 82: if self._running
AlreadyRunningNever == FALSE

AlreadyRunning == running

\* start(callback), lines 82-83: the call begins; a running session
\* returns at once.
StartCheck(c, cb) ==
  /\ session.state = "ok"
  /\ ctl[c].pc = "idle"
  /\ IF AlreadyRunning
     THEN ctl' = CtlStep(c, [IdleCall EXCEPT !.cb = cb, !.alone = Alone(c),
                                             !.last = "start_noop"])
     ELSE /\ StartsPassed < MaxStarts
          /\ ctl' = CtlStep(c, [IdleCall EXCEPT !.pc = "start_set", !.cb = cb,
                                                !.alone = Alone(c)])
  /\ UNCHANGED <<feedVars, webVars, appVars, callVars, dspVars, session, start_mark, running, callback, stream,
                 process_thread, audio_queue, streams, workers, stop_calls,
                 produced, delivered, blocked>>

\* start, lines 85-86
StartSet(c) ==
  /\ ctl[c].pc = "start_set"
  /\ callback' = ctl[c].cb
  /\ start_mark' = produced
  /\ running' = TRUE
  /\ ctl' = CtlStep(c, [ctl[c] EXCEPT !.pc = "start_spawn"])
  /\ UNCHANGED <<feedVars, webVars, appVars, callVars, dspVars, session, stream, process_thread, audio_queue,
                 streams, workers, stop_calls, produced, delivered, blocked>>

\* The id of the next object made.
NextWorker == CHOOSE k \in WorkerIds :
                /\ workers[k].pc = "none"
                /\ \A j \in WorkerIds : j < k => workers[j].pc # "none"

NextStream == CHOOSE x \in StreamIds :
                /\ streams[x] = "none"
                /\ \A j \in StreamIds : j < x => streams[j] # "none"

\* start, lines 89-90: the processing thread is made and started
StartSpawn(c) ==
  /\ ctl[c].pc = "start_spawn"
  /\ workers' = [workers EXCEPT ![NextWorker] = [pc |-> "loop", block |-> 0]]
  /\ process_thread' = NextWorker
  /\ ctl' = CtlStep(c, [ctl[c] EXCEPT !.pc = "start_open"])
  /\ UNCHANGED <<feedVars, webVars, appVars, callVars, dspVars, session, start_mark, running, callback, stream,
                 audio_queue, streams, stop_calls, produced, delivered, blocked>>

\* What sounddevice does with the device: sd.InputStream(...) opens it or
\* raises, stream.start() starts it or raises.
OpenOutcomes == {"ok", "open_fails", "start_fails"}

\* start, lines 97-105: nothing catches an error of sd.InputStream(...) or
\* of stream.start(), so it leaves start as an exception.
StartResultSwallowed(outcome) == "started"

StartResult(outcome) == IF outcome = "ok" THEN "started" ELSE "start_raised"

\* start, lines 97-105: the stream is opened, kept in self._stream and
\* started.  An error of sounddevice leaves start as an exception.
StartOpen(c, outcome) ==
  /\ ctl[c].pc = "start_open"
  /\ IF outcome = "open_fails"
     THEN /\ UNCHANGED <<stream, streams>>
          /\ ctl' = CtlStep(c, CallOver(c, StartResult(outcome)))
     ELSE /\ stream' = NextStream
          /\ streams' = [streams EXCEPT ![NextStream] =
                           IF outcome = "ok" THEN "active" ELSE "opened"]
          /\ ctl' = CtlStep(c, CallOver(c, StartResult(outcome)))
  /\ UNCHANGED <<feedVars, webVars, appVars, callVars, dspVars, session, start_mark, running, callback, process_thread,
                 audio_queue, workers, stop_calls, produced, delivered, blocked>>

\* stop, line 109: the call begins with self._running = False
StopFlag(c) ==
  /\ session.state = "ok"
  /\ ctl[c].pc = "idle"
  /\ stop_calls < MaxStops
  /\ stop_calls' = stop_calls + 1
  /\ running' = FALSE
  /\ ctl' = CtlStep(c, [IdleCall EXCEPT !.pc = "stop_stream", !.alone = Alone(c)])
  /\ UNCHANGED <<feedVars, webVars, appVars, callVars, dspVars, session, start_mark, callback, stream, process_thread,
                 audio_queue, streams, workers, produced, delivered, blocked>>

\* stop, lines 111-114: if self._stream: stop it, close it, forget it
StopStream(c) ==
  /\ ctl[c].pc = "stop_stream"
  /\ IF stream # 0
     THEN /\ streams' = [streams EXCEPT ![stream] = "closed"]
          /\ stream' = 0
     ELSE UNCHANGED <<stream, streams>>
  /\ ctl' = CtlStep(c, [ctl[c] EXCEPT !.pc = "stop_join"])
  /\ UNCHANGED <<feedVars, webVars, appVars, callVars, dspVars, session, start_mark, running, callback, process_thread,
                 audio_queue, workers, stop_calls, produced, delivered, blocked>>

\* Thread.join(timeout=1.0) on worker k returns: the thread has ended, or
\* the second has passed with the thread alive, which takes a worker that
\* is inside the consumer callback or that sees the session running again.
JoinWaitsForEnd(k) == workers[k].pc = "dead"

JoinReturns(k) ==
  \/ workers[k].pc = "dead"
  \/ workers[k].pc = "call"
  \/ running

\* stop, lines 116-118: if self._process_thread: join it for at most a
\* second, forget it; the call returns.
StopJoin(c) ==
  /\ ctl[c].pc = "stop_join"
  /\ IF process_thread # 0
     THEN /\ JoinReturns(process_thread)
          /\ process_thread' = 0
          /\ ctl' = CtlStep(c, CallOver(c,
                      IF workers[process_thread].pc = "dead"
                      THEN "stopped" ELSE "stopped_timeout"))
     ELSE /\ UNCHANGED process_thread
          /\ ctl' = CtlStep(c, CallOver(c, "stopped"))
  /\ UNCHANGED <<feedVars, webVars, appVars, callVars, dspVars, session, start_mark, running, callback, stream,
                 audio_queue, streams, workers, stop_calls, produced,
                 delivered, blocked>>

\* queue.Queue.put waits while a bounded queue is full; maxsize 0 is no
\* bound.
QueueFullAtOne(q) == Len(q) >= 1

QueueFull(q) == QueueMaxSize > 0 /\ Len(q) >= QueueMaxSize

\* The block that the waiting callback of stream x holds.
Pending(x) == {b \in 1..MaxBlocks : <<x, b>> \in blocked}

\* _audio_callback, lines 120-127, called by the device thread of the
\* active stream x with the next block: a running session puts a copy of
\* the block into the queue, else the block is dropped.  A callback that
\* waits inside put goes on when the queue has room.
AudioCallback(x) ==
  /\ streams[x] = "active"
  /\ IF Pending(x) # {}
     THEN /\ ~QueueFull(audio_queue)
          /\ audio_queue' = Append(audio_queue, CHOOSE b \in Pending(x) : TRUE)
          /\ blocked' = {e \in blocked : e[1] # x}
          /\ UNCHANGED produced
     ELSE /\ produced < MaxBlocks
          /\ produced' = produced + 1
          /\ IF ~running
             THEN UNCHANGED <<audio_queue, blocked>>
             ELSE IF QueueFull(audio_queue)
             THEN /\ blocked' = blocked \cup {<<x, produced + 1>>}
                  /\ UNCHANGED audio_queue
             ELSE /\ audio_queue' = Append(audio_queue, produced + 1)
                  /\ UNCHANGED blocked
  /\ UNCHANGED <<feedVars, webVars, appVars, callVars, dspVars, session, start_mark, running, callback, stream,
                 process_thread, streams, workers, ctl, stop_calls, delivered>>

\* _process_audio, line 131: while self._running
WorkerLoop(k) ==
  /\ workers[k].pc = "loop"
  /\ workers' = [workers EXCEPT ![k].pc = IF running THEN "get" ELSE "dead"]
  /\ UNCHANGED <<feedVars, webVars, appVars, callVars, dspVars, session, start_mark, running, callback, stream,
                 process_thread, audio_queue, streams, ctl, stop_calls,
                 produced, delivered, blocked>>

\* lines 133-135: the worker after get found the queue empty: queue.Empty
\* is raised after the timeout and the loop goes on.
AfterEmptyGetWaits(w) == w

AfterEmptyGet(w) == [w EXCEPT !.pc = "loop"]

\* queue.Queue.get: the queue after its oldest block was taken.
QueueAfterGetKeeps(q) == q

QueueAfterGet(q) == Tail(q)

\* lines 132-135: get(timeout=0.1) takes the oldest block, or raises
\* queue.Empty after the timeout.
WorkerGet(k) ==
  /\ workers[k].pc = "get"
  /\ IF audio_queue # << >>
     THEN /\ workers' = [workers EXCEPT ![k] = [pc |-> "process",
                                                 block |-> Head(audio_queue)]]
          /\ audio_queue' = QueueAfterGet(audio_queue)
     ELSE /\ workers' = [workers EXCEPT ![k] = AfterEmptyGet(@)]
          /\ UNCHANGED audio_queue
  /\ UNCHANGED <<feedVars, webVars, appVars, callVars, dspVars, session, start_mark, running, callback, stream,
                 process_thread, streams, ctl, stop_calls, produced,
                 delivered, blocked>>

\* lines 137-160: the block is made into a chunk and, if self._callback,
\* the callback is called with it.
WorkerCall(k) ==
  /\ workers[k].pc = "process"
  /\ IF callback # ""
     THEN /\ delivered' = Append(delivered, [block |-> workers[k].block,
                                             cb |-> callback, outcome |-> ""])
          /\ workers' = [workers EXCEPT ![k].pc = "call"]
     ELSE /\ workers' = [workers EXCEPT ![k] = [pc |-> "loop", block |-> 0]]
          /\ UNCHANGED delivered
  /\ UNCHANGED <<feedVars, webVars, appVars, callVars, dspVars, session, start_mark, running, callback, stream,
                 process_thread, audio_queue, streams, ctl, stop_calls,
                 produced, blocked>>

\* lines 159-162: try: self._callback(audio_bytes) / except Exception.
\* The worker after the callback returned or raised.
AfterConsumerCallbackNoCatch(w, outcome) ==
  IF outcome = "raise" THEN [pc |-> "dead", block |-> 0]
  ELSE [pc |-> "loop", block |-> 0]

AfterConsumerCallback(w, outcome) == [pc |-> "loop", block |-> 0]

\* The consumer callback returns or raises.
WorkerCallReturn(k, outcome) ==
  /\ workers[k].pc = "call"
  /\ workers' = [workers EXCEPT ![k] = AfterConsumerCallback(@, outcome)]
  /\ delivered' = [i \in 1..Len(delivered) |->
                     IF delivered[i].block = workers[k].block
                     THEN [delivered[i] EXCEPT !.outcome = outcome]
                     ELSE delivered[i]]
  /\ UNCHANGED <<feedVars, webVars, appVars, callVars, dspVars, session, start_mark, running, callback, stream,
                 process_thread, audio_queue, streams, ctl, stop_calls,
                 produced, blocked>>

\* ------------------------------------------- the worker's signal path
\* A sample of the device is a float32 in [-1.0, 1.0]; the model counts it
\* in halves, so 2 is 1.0 and 1 is 0.5.  A value computed from samples is
\* the fraction <<p, q>> of halves, q > 0; the rounding of the floating
\* point operations is left out.
Samples == {0 - 2, 0, 2}

Rat(x) == <<x, 1>>

\* The blocks of n frames that a device with dc input channels delivers.
Blocks(n, dc) == [1..n -> [1..dc -> Samples]]

RECURSIVE SeqSum(_)
SeqSum(xs) == IF xs = << >> THEN 0 ELSE Head(xs) + SeqSum(Tail(xs))

\* line 140: indata[:, self.channels[0]], at one frame
SingleChannelFirst(frame, ch) == frame[1]

SingleChannel(frame, ch) == frame[ch + 1]

\* line 143: np.mean(indata[:, self.channels], axis=1), at one frame
MeanOfFirst(frame, channels) == Rat(frame[channels[1] + 1])

MeanOfChannels(frame, channels) ==
  <<SeqSum([k \in 1..Len(channels) |-> frame[channels[k] + 1]]), Len(channels)>>

\* lines 138-143: the mono samples of a block
ExtractChannels(block, channels) ==
  IF Len(channels) = 1
  THEN [i \in 1..Len(block) |-> Rat(SingleChannel(block[i], channels[1]))]
  ELSE [i \in 1..Len(block) |-> MeanOfChannels(block[i], channels)]

\* _process_audio, lines 137-143: the worker extracts the selected
\* channels of the block it took from the queue.
Extract ==
  /\ dsp = "got"
  /\ channel_data' = ExtractChannels(indata, session.channels)
  /\ dsp' = "extracted"
  /\ UNCHANGED <<feedVars, webVars, capVars, appVars, callVars, indata,
                 audio_int16, device_sample_rate, target_sample_rate>>

\* _resample_linear, lines 15-16: duration = len(audio) / orig_rate;
\* target_length = int(duration * target_rate).  int() drops the fraction;
\* for the lengths and rates of the model the double product is the exact
\* quotient or lies in the same unit interval.
TargetLength(n, orig_rate, target_rate) == (n * target_rate) \div orig_rate

\* np.linspace(0, n - 1, len)[j], for j from 0: the fraction <<p, q>>
LinspaceAt(n, len, j) == IF len = 1 THEN <<0, 1>> ELSE <<j * (n - 1), len - 1>>

\* lines 19-26: the output sample j (from 0) of the interpolation
InterpolatedUnweightedLower(audio, len, j) ==
  LET n == Len(audio)
      idx == LinspaceAt(n, len, j)
      lower == idx[1] \div idx[2]
      upper == IF lower + 1 <= n - 1 THEN lower + 1 ELSE n - 1
      w == idx[1] % idx[2]
      a == audio[lower + 1]
      b == audio[upper + 1]
  IN <<a[1] * b[2] * idx[2] + b[1] * a[2] * w, a[2] * b[2] * idx[2]>>

Interpolated(audio, len, j) ==
  LET n == Len(audio)
      idx == LinspaceAt(n, len, j)
      lower == idx[1] \div idx[2]
      upper == IF lower + 1 <= n - 1 THEN lower + 1 ELSE n - 1
      w == idx[1] % idx[2]
      a == audio[lower + 1]
      b == audio[upper + 1]
  IN <<a[1] * b[2] * (idx[2] - w) + b[1] * a[2] * w, a[2] * b[2] * idx[2]>>

\* _resample_linear(audio, orig_rate, target_rate), lines 10-26
resample_linear(audio, orig_rate, target_rate) ==
  IF orig_rate = target_rate THEN audio
  ELSE LET len == TargetLength(Len(audio), orig_rate, target_rate)
       IN [j \in 1..len |-> Interpolated(audio, len, j - 1)]

\* _process_audio, lines 146-151: resample if the device's rate is not the
\* target rate.
Resample ==
  /\ dsp = "extracted"
  /\ channel_data' = IF device_sample_rate # target_sample_rate
                     THEN resample_linear(channel_data, device_sample_rate,
                                          target_sample_rate)
                     ELSE channel_data
  /\ dsp' = "resampled"
  /\ UNCHANGED <<feedVars, webVars, capVars, appVars, callVars, indata,
                 audio_int16, device_sample_rate, target_sample_rate>>

\* line 154: channel_data * 32767, for a value v in halves: the fraction
\* <<p, q>> of units
Int16Max == 32767

Scaled(v) == <<v[1] * Int16Max, v[2] * 2>>

\* The fraction x lies in the range of a 16-bit signed integer.
InInt16(x) == (0 - Int16Max - 1) * x[2] <= x[1] /\ x[1] <= Int16Max * x[2]

\* The fraction x without its fractional part, as a C cast makes it.
Truncated(x) == IF x[1] >= 0 THEN x[1] \div x[2] ELSE 0 - ((0 - x[1]) \div x[2])

\* The integer n kept to its 16 low bits, two's complement.
Wrapped16(n) ==
  LET m == n % (2 * (Int16Max + 1))
  IN IF m > Int16Max THEN m - 2 * (Int16Max + 1) ELSE m

\* line 154: .astype(np.int16) of the value x.  The cast of a value out
\* of the range is undefined in C: the builds wrap it or give the least
\* integer.
AsInt16(x) ==
  IF InInt16(x) THEN {Truncated(x)}
  ELSE {Wrapped16(Truncated(x)), 0 - Int16Max - 1}

\* _process_audio, lines 153-155: the mono samples are scaled and narrowed
\* to 16-bit integers.
Convert ==
  /\ dsp = "resampled"
  /\ LET scaled == [i \in 1..Len(channel_data) |-> Scaled(channel_data[i])]
         values == UNION {AsInt16(scaled[i]) : i \in 1..Len(scaled)}
     IN IF \A i \in 1..Len(scaled) : InInt16(scaled[i])
        THEN audio_int16' = [i \in 1..Len(scaled) |-> Truncated(scaled[i])]
        ELSE audio_int16' \in {out \in [1..Len(scaled) -> values] :
                                 \A i \in 1..Len(scaled) :
                                   out[i] \in AsInt16(scaled[i])}
  /\ dsp' = "converted"
  /\ UNCHANGED <<feedVars, webVars, capVars, appVars, callVars, indata,
                 channel_data, device_sample_rate, target_sample_rate>>

\* ------------------------------------------------------ the application
\* FeedManager._feeds is a dict: its values come in the order in which
\* initialize created the feeds, the order of the configuration.
FeedOrder == <<"f1", "f2">>

IsEnabledFeed(f) == f \in feeds /\ enabled[f]

\* FeedManager.get_enabled_feeds
get_enabled_feeds == SelectSeq(FeedOrder, IsEnabledFeed)

\* _start_feed(device, f, feed.channel), lines 105-151: how the call ends.
\* capture.start is called with no try around it (line 150): what leaves
\* start leaves _start_feed.
StartFeedResult(f) ==
  IF channel[f] >= device THEN "channel_unavailable"
  ELSE IF ~world[f].transcriber THEN "transcriber_failed"
  ELSE IF ~ChannelsValid(<<channel[f]>>, device) THEN "capture_error"
  ELSE IF StartResult(world[f].open) = "start_raised" THEN "raised"
  ELSE "started"

\* start_captioning, lines 84-97: a running application returns at once;
\* else the flag is set and the loop over the enabled feeds begins.
StartCaptioning ==
  /\ app.pc = "idle"
  /\ device # 0
  /\ IF app_running
     THEN /\ app.last # "noop"
          /\ app' = [IdleApp EXCEPT !.last = "noop"]
          /\ UNCHANGED app_running
     ELSE /\ app_running' = TRUE
          /\ app' = IF get_enabled_feeds = << >>
                    THEN [IdleApp EXCEPT !.last = "returned"]
                    ELSE [pc |-> "loop", todo |-> get_enabled_feeds, last |-> ""]
  /\ UNCHANGED <<feedVars, webVars, capVars, callVars, dspVars, captures, transcribers, channel,
                 device, world, vmix_client, file_output, vmix_input,
                 vmix_calls, file_calls>>

\* start_captioning, lines 97-98: one iteration of the loop, the call of
\* _start_feed for the next enabled feed (lines 102-153).
StartFeed ==
  /\ app.pc = "loop"
  /\ LET f == Head(app.todo)
         r == StartFeedResult(f)
     IN /\ transcribers' = [transcribers EXCEPT ![f] =
                               IF r \in {"raised", "started"}
                               THEN "started" ELSE @]
        /\ captures' = IF r = "started" THEN captures \cup {f} ELSE captures
        /\ app' = IF r = "raised" THEN [IdleApp EXCEPT !.last = "raised"]
                  ELSE IF Tail(app.todo) = << >>
                  THEN [IdleApp EXCEPT !.last = "returned"]
                  ELSE [app EXCEPT !.todo = Tail(@)]
  /\ UNCHANGED <<feedVars, webVars, capVars, callVars, dspVars, app_running, channel, device, world,
                 vmix_client, file_output, vmix_input, vmix_calls, file_calls>>

\* stop_captioning, lines 157-169: every capture and every transcriber is
\* stopped, both dicts are cleared.
StopCaptioning ==
  /\ app.pc = "idle"
  /\ app.last \in {"returned", "raised", "noop"}
  /\ app_running' = FALSE
  /\ captures' = {}
  /\ transcribers' = [f \in FeedIds |-> "none"]
  /\ app' = [IdleApp EXCEPT !.last = "stopped"]
  /\ UNCHANGED <<feedVars, webVars, capVars, callVars, dspVars, channel, device, world,
                 vmix_client, file_output, vmix_input, vmix_calls, file_calls>>

\* ----------------------------------------------------------- properties
Min(a, b) == IF a <= b THEN a ELSE b

LastN(s, n) == SubSeq(s, Len(s) - n + 1, Len(s))

IsFinal(c) == c.is_final

\* The final captions added to feed f so far, in the order they were added.
FinalsOf(f) == SelectSeq(log[f], IsFinal)

\* C1: the history of a feed holds at most MaxCaptions captions, and they
\* are exactly the last min(MaxCaptions, n) of the n final captions added
\* so far, oldest first.
C1_HistoryIsLastFinals ==
  \A f \in FeedIds :
    /\ Len(captions[f]) <= MaxCaptions
    /\ captions[f] = LastN(FinalsOf(f), Min(MaxCaptions, Len(FinalsOf(f))))

\* C1 witness: more finals than the capacity were added; the oldest is gone.
C1_Evicted ==
  /\ Len(FinalsOf("f1")) > MaxCaptions
  /\ Len(captions["f1"]) = MaxCaptions
  /\ captions["f1"][1] # FinalsOf("f1")[1]

\* The index in log[f] of the last final transcript, 0 when there is none.
LastFinalIndex(f) ==
  LET S == {i \in 1..Len(log[f]) : log[f][i].is_final}
  IN IF S = {} THEN 0 ELSE CHOOSE i \in S : \A j \in S : j <= i

\* What the claim says get_current_text returns.
ClaimedCurrentText(f) ==
  IF Len(log[f]) > LastFinalIndex(f) THEN log[f][Len(log[f])].text
  ELSE IF LastFinalIndex(f) > 0 THEN log[f][LastFinalIndex(f)].text
  ELSE ""

\* C2 (as claimed): get_current_text returns the latest interim text when an
\* interim followed the last final, else the latest final's text, else "",
\* for any texts, the empty string included.
C2_CurrentTextAsClaimed ==
  \A f \in FeedIds : get_current_text(f) = ClaimedCurrentText(f)

\* Thread t invokes feed callback cb in this step.
InvokesFeedCallback(t, cb) ==
  /\ th[t].pc = "notify"
  /\ th'[t].inv[cb] > th[t].inv[cb]

\* C3 (as claimed): a callback is never invoked by a feed once unsubscribe
\* has removed it, also when a notification cycle is under way.
C3_NoCallAfterUnsubscribe ==
  [][\A t \in Threads, cb \in Callbacks :
       InvokesFeedCallback(t, cb) => cb \in subscribers[th[t].feed_id]]_vars

\* Thread t leaves Feed._notify_subscribers in this step.
LeavesFeedNotification(t) ==
  /\ th[t].pc = "notify"
  /\ th'[t].pc # "notify"

\* C4: a call of Feed.add_transcript invokes each callback that is
\* subscribed when the notification takes its copy exactly once, with the
\* caption the call created, and no other callback.
C4_EachSubscriberOnce ==
  [][\A t \in Threads :
       /\ \A cb \in Callbacks :
            InvokesFeedCallback(t, cb) =>
              /\ cb \in th[t].snap
              /\ th[t].inv[cb] = 0
              /\ th'[t].inv[cb] = 1
              /\ th'[t].arg = th[t].caption
              /\ th[t].caption = log[th[t].feed_id][th[t].caption.id[2]]
       /\ LeavesFeedNotification(t) =>
            \A cb \in Callbacks :
              th[t].inv[cb] = (IF cb \in th[t].snap THEN 1 ELSE 0)]_vars

\* C4 witness: both subscribers of a feed have been invoked by one call.
C4_BothInvoked ==
  \E t \in Threads :
    /\ th[t].pc = "notify"
    /\ th[t].snap = Callbacks
    /\ th[t].todo = {}
    /\ \A cb \in Callbacks : th[t].inv[cb] = 1


\* Thread t invokes a global callback in this step.
InvokesGlobalCallback(t) ==
  /\ th[t].pc = "gnotify"
  /\ Len(th'[t].ginv) > Len(th[t].ginv)

\* Thread t hands the result of its call to the caller in this step.
Returns(t) ==
  /\ th[t].pc \in {"notify", "gnotify"}
  /\ th'[t].pc = "done"

\* C5: a feed subscriber or a global subscriber that raises does not end
\* the call: the exception does not reach the caller, the loop goes on with
\* the next subscriber exactly as after a callback that returned, the
\* history and the interim slot are not touched, every subscriber of the
\* feed's copy is invoked before the feed-level loop is left, and the call
\* returns the caption it created.
C5_RaisingSubscriberIsolated ==
  [][\A t \in Threads :
       /\ ~th'[t].exc
       /\ \A cb \in Callbacks :
            (InvokesFeedCallback(t, cb) /\ th'[t].raised) =>
              /\ th'[t].pc = "notify"
              /\ th'[t].todo = th[t].todo \ {cb}
              /\ th'[t].caption = th[t].caption
              /\ captions' = captions
              /\ current_interim' = current_interim
       /\ (InvokesGlobalCallback(t) /\ th'[t].raised) =>
              /\ th'[t].pc = "gnotify"
              /\ th'[t].gidx = th[t].gidx + 1
              /\ th'[t].caption = th[t].caption
              /\ captions' = captions
              /\ current_interim' = current_interim
       /\ LeavesFeedNotification(t) =>
            \A cb \in th[t].snap : th[t].inv[cb] = 1
       /\ Returns(t) =>
            /\ th'[t].ret = th[t].caption
            /\ th'[t].ret # NoCaption]_vars

\* C5 witness: the first global subscriber raised and the second one was
\* invoked after it, in a call for a feed that has subscribers.
C5_SiblingInvokedAfterRaise ==
  \E t \in Threads :
    /\ th[t].pc = "gnotify"
    /\ Len(th[t].ginv) = 2
    /\ th[t].ginv[1][4] = "raise"
    /\ th[t].ginv[1][1] # th[t].ginv[2][1]
    /\ th[t].snap # {}

\* Occurrences of x in list l.
Count(l, x) == Cardinality({i \in 1..Len(l) : l[i] = x})

\* Invocations of global callback cb in the call of frame fr.
GlobalInvocations(fr, cb) ==
  Cardinality({i \in 1..Len(fr.ginv) : fr.ginv[i][1] = cb})

\* C6: FeedManager.add_transcript for a feed id that is not registered, or
\* whose feed is disabled, returns None at once: no exception, no callback
\* invoked, no feed's history or interim slot changed.
C6_NotDeliveredIsNoOp ==
  [][\A t \in Threads :
       /\ (/\ th[t].pc = "idle"
           /\ th'[t].pc # "idle"
           /\ th'[t].via = "mgr"
           /\ (th'[t].feed_id \notin feeds \/ ~enabled[th'[t].feed_id])) =>
             /\ th'[t].pc = "done"
             /\ th'[t].ret = NoCaption
             /\ ~th'[t].exc
             /\ \A cb \in Callbacks : th'[t].inv[cb] = 0
             /\ th'[t].ginv = << >>
             /\ captions' = captions
             /\ current_interim' = current_interim
       /\ (th[t].pc = "done" /\ th'[t] # th[t]) =>
             /\ th'[t] = IdleFrame
             /\ captions' = captions
             /\ current_interim' = current_interim]_vars

\* C6 witness: a call for a disabled feed that has a history, a subscriber
\* and a global subscriber has returned None.
C6_RejectedDisabled ==
  \E t \in Threads :
    /\ th[t].pc = "done"
    /\ th[t].via = "mgr"
    /\ th[t].ret = NoCaption
    /\ th[t].feed_id \in feeds
    /\ ~enabled[th[t].feed_id]
    /\ captions[th[t].feed_id] # << >>
    /\ subscribers[th[t].feed_id] # {}
    /\ global_subscribers # << >>

\* C7 (as claimed): the global subscribers are invoked only after
\* Feed.add_transcript has completed, with (feed_id, caption), and every
\* global subscriber that is registered (once) when the loop begins and
\* when the call returns has been invoked exactly once.
C7_GlobalSubscribersExactlyOnce ==
  [][\A t \in Threads :
       /\ InvokesGlobalCallback(t) =>
            /\ th[t].todo = {}
            /\ \A cb \in th[t].snap : th[t].inv[cb] = 1
            /\ th'[t].ginv[Len(th'[t].ginv)][2] = th[t].feed_id
            /\ th'[t].ginv[Len(th'[t].ginv)][3] = th[t].caption
       /\ (th[t].pc = "gnotify" /\ th'[t].pc = "done") =>
            \A cb \in GlobalCallbacks :
              (Count(th[t].glist0, cb) = 1 /\ Count(global_subscribers, cb) = 1)
                => GlobalInvocations(th[t], cb) = 1]_vars

\* The feed that thread t's call is for, in a step of that thread.
CallFeed(t) == IF th[t].pc = "idle" THEN th'[t].feed_id ELSE th[t].feed_id

\* C8: a step of FeedManager.add_transcript(f, t) leaves the history, the
\* interim slot and the subscribers of every feed other than f as they
\* are, changes f's history and interim slot only, and invokes only
\* callbacks that were subscribed to f.
C8_OtherFeedsUntouched ==
  [][\A t \in Threads :
       th'[t] # th[t] =>
         /\ \A g \in FeedIds \ {CallFeed(t)} :
              /\ captions'[g] = captions[g]
              /\ current_interim'[g] = current_interim[g]
         /\ subscribers' = subscribers
         /\ th[t].pc = "copy" => th'[t].todo = subscribers[th[t].feed_id]
         /\ \A cb \in Callbacks :
              InvokesFeedCallback(t, cb) => cb \in th[t].snap]_vars

\* C8 witness: a call for feed f2 has updated f2 and is notifying, while
\* f1 has a history and a subscriber that f2 does not have.
C8_OtherFeedHasState ==
  \E t \in Threads :
    /\ th[t].pc = "notify"
    /\ th[t].feed_id = "f2"
    /\ captions["f2"] # << >>
    /\ captions["f1"] # << >>
    /\ subscribers["f1"] # {}
    /\ subscribers["f2"] = {}

\* The indices in received of the messages of the given type.
IndicesOf(received, type) ==
  {i \in 1..Len(received) : received[i].type = type}

\* The caption records that the endpoint's replay sent to a listener.
Replayed(received) ==
  SelectSeq(received, LAMBDA m : m.type = "caption" /\ m.origin = "replay")

\* C9: when a listener connects to a feed whose recent history holds
\* N >= 1 final captions, the caption records sent between history_start
\* and history_end are the N captions oldest first, that is in the order in
\* which they were added to the feed (the order of their ids).
C9_ReplayOldestFirst ==
  \A w \in Listeners :
    LET r == Replayed(ws[w].received)
    IN /\ \A i, j \in 1..Len(r) : i < j => r[i].body.id[2] < r[j].body.id[2]
       /\ IndicesOf(ws[w].received, "history_end") # {} =>
            \E i \in IndicesOf(ws[w].received, "history_start") :
              ws[w].received[i].count = Len(r)

\* C10: no live caption record is delivered to a listener before
\* history_end: every record a listener receives after history_start and
\* before history_end was sent by the replay, whatever the interleaving
\* with the broadcasts for the same feed.
C10_NoLiveBeforeHistoryEnd ==
  \A w \in Listeners :
    \A j \in 1..Len(ws[w].received) :
      (/\ ws[w].received[j].origin = "live"
       /\ \E i \in IndicesOf(ws[w].received, "history_start") : i < j)
      => \E k \in IndicesOf(ws[w].received, "history_end") : k < j

\* The records that the endpoint itself sent to a listener on connect.
SentOnConnect(received) ==
  SelectSeq(received, LAMBDA m : m.origin = "replay")

\* C11: on every accepted connection to an existing feed, for every
\* N >= 0, N = 0 included, the endpoint first sends history_start with
\* count N, then exactly N caption records, then history_end: a listener
\* that has reached the receive loop has been sent exactly that.
C11_MarkersForEveryCount ==
  \A w \in Listeners :
    ws[w].pc = "live" =>
      LET e == SentOnConnect(ws[w].received)
      IN /\ Len(e) >= 2
         /\ e[1].type = "history_start"
         /\ e[1].count = Len(e) - 2
         /\ e[Len(e)].type = "history_end"
         /\ \A i \in 2..(Len(e) - 1) : e[i].type = "caption"

\* The streams that are open and the workers that are alive.
OpenStreams == {x \in StreamIds : streams[x] \in {"opened", "active"}}
AliveWorkers == {k \in WorkerIds : workers[k].pc \notin {"none", "dead"}}

\* C12: in every reachable state of a capture session, under any sequence
\* and interleaving of start and stop calls (a stop whose join timed out
\* followed by a start included), at most one input stream is open and at
\* most one processing worker is alive.
C12_OneStreamOneWorker ==
  /\ Cardinality(OpenStreams) <= 1
  /\ Cardinality(AliveWorkers) <= 1

\* Caller c begins a call of start in this step.
BeginsStart(c) ==
  /\ ctl[c].pc = "idle"
  /\ ctl'[c] # ctl[c]
  /\ stop_calls' = stop_calls

\* Caller c takes a step of its stop call in this step.
StepsStop(c) ==
  \/ ctl[c].pc = "idle" /\ stop_calls' # stop_calls /\ ctl'[c].pc # "idle"
  \/ ctl[c].pc \in {"stop_stream", "stop_join"} /\ ctl'[c].pc # ctl[c].pc

\* The session is Idle: not running, no stream and no worker referenced.
Idle == ~running /\ stream = 0 /\ process_thread = 0

\* The fields of the session and the objects they refer to are as before.
SessionUntouched ==
  UNCHANGED <<running, callback, stream, process_thread, audio_queue,
              streams, workers>>

\* C13: start(cb2) on a session that is Running is a no-op: the call
\* returns, the registered callback stays, no worker is spawned, no stream
\* is opened, the queue is unchanged; and a stop on an Idle session
\* changes nothing and does not raise.
C13_StartRunningStopIdleNoOp ==
  [][\A c \in Callers :
       /\ (BeginsStart(c) /\ running) =>
            /\ ctl'[c].pc = "idle"
            /\ ctl'[c].last = "start_noop"
            /\ SessionUntouched
       /\ (StepsStop(c) /\ Idle) =>
            /\ SessionUntouched
            /\ ctl'[c].last \in {"", "stopped"}]_vars

\* C13 witness: a start with another callback returned from a running
\* session, whose callback is still the one registered before.
C13_SecondStartIgnored ==
  \E c \in Callers :
    /\ ctl[c].pc = "idle"
    /\ ctl[c].last = "start_noop"
    /\ running
    /\ callback # ""
    /\ callback # ctl[c].cb
    /\ Cardinality(AliveWorkers) = 1
    /\ Cardinality(OpenStreams) = 1

\* C14: after stop has set _running to false, if no later start sets it
\* again and the consumer callback returns, every processing worker
\* eventually sees the flag and ends, whether the queue is empty or holds
\* blocks.
C14_WorkerExitsAfterStop ==
  \A k \in WorkerIds :
    (<>[](~running)) => (<>[](workers[k].pc \in {"none", "dead"}))

\* C14 witness: the session was stopped, its worker has ended and the
\* queue still holds a block.
C14_ExitedWithBlocksQueued ==
  /\ ~running
  /\ stop_calls > 0
  /\ \A c \in Callers : ctl[c].pc = "idle"
  /\ \E k \in WorkerIds : workers[k].pc = "dead"
  /\ AliveWorkers = {}
  /\ audio_queue # << >>

\* Caller c returns from a stop call, which no other call overlapped, in
\* this step.
ReturnsFromStop(c) ==
  /\ ctl[c].pc = "stop_join"
  /\ ctl[c].alone
  /\ ctl'[c].pc = "idle"

\* C15: stop always returns and leaves the session with is_running false,
\* no stream reference and no worker reference, even when the worker never
\* ends because the consumer callback does not return: a stop that waits
\* in the join for a worker that is inside the callback can return, and a
\* stop that returns has not raised and leaves the three fields cleared.
C15_StopReturnsCleared ==
  /\ [](\A c \in Callers :
          (/\ ctl[c].pc = "stop_join"
           /\ process_thread # 0
           /\ workers[process_thread].pc = "call") => ENABLED StopJoin(c))
  /\ [][\A c \in Callers :
          ReturnsFromStop(c) =>
            /\ ctl'[c].last \in {"stopped", "stopped_timeout"}
            /\ ~running'
            /\ stream' = 0
            /\ process_thread' = 0]_vars

\* C15 witness: stop has returned after its join timed out; the worker is
\* still inside the consumer callback and the fields are cleared.
C15_StoppedWhileCallbackHangs ==
  \E c \in Callers :
    /\ ctl[c].pc = "idle"
    /\ ctl[c].last = "stopped_timeout"
    /\ ~running
    /\ stream = 0
    /\ process_thread = 0
    /\ \E k \in WorkerIds : workers[k].pc = "call"

\* The consumer callback that worker k is in raises in this step.
ConsumerRaises(k) ==
  /\ workers[k].pc = "call"
  /\ \E i \in 1..Len(delivered) :
       /\ delivered[i].block = workers[k].block
       /\ delivered[i].outcome = ""
       /\ delivered'[i].outcome = "raise"

\* C16: an exception raised by the consumer callback for one block does
\* not end the processing worker: the worker is back at the head of its
\* loop, the flag and the queue are untouched, so that while the session
\* stays Running the blocks enqueued after the failing one are taken and
\* passed to the callback as after a call that returned.
C16_ConsumerExceptionKeepsWorker ==
  [][\A k \in WorkerIds :
       ConsumerRaises(k) =>
         /\ workers'[k].pc = "loop"
         /\ UNCHANGED <<running, callback, audio_queue, process_thread,
                        stream, streams>>
         /\ \A j \in WorkerIds \ {k} : workers'[j] = workers[j]]_vars

\* C16 witness: the callback raised for the first block and the same
\* session has passed the block enqueued after it to the callback.
C16_DeliveredAfterRaise ==
  /\ Len(delivered) >= 2
  /\ delivered[1].outcome = "raise"
  /\ delivered[2].block > delivered[1].block
  /\ stop_calls = 0
  /\ Cardinality(AliveWorkers) = 1

\* C17: the queue between the audio callback and the worker is bounded:
\* there is a bound B, the same in every reachable state and not depending
\* on how many blocks the device delivers, such that the queue holds at
\* most B blocks however slow the worker or the consumer callback is.  The
\* device of the model delivers MaxBlocks blocks: such a B is below that.
C17_QueueBounded ==
  \E B \in 0..(MaxBlocks - 1) : Len(audio_queue) <= B

\* C18: the audio callback never blocks: in every reachable state (queue
\* of any length, worker busy, hung or absent, session running or not) no
\* invocation of the device callback is waiting for the queue, the worker
\* or the consumer callback: each one has completed in its own step.
C18_AudioCallbackNeverWaits ==
  /\ blocked = {}
  /\ \A x \in StreamIds : Pending(x) = {}

\* C18 witness: the device callback has put its block behind another one
\* that the worker has not taken yet, and has returned.
C18_PutBehindWaitingBlock ==
  /\ Len(audio_queue) >= 2
  /\ audio_queue[Len(audio_queue)] = produced
  /\ running
  /\ AliveWorkers # {}
  /\ blocked = {}

\* C19: the chunks handed to the consumer callback form a contiguous
\* stream under any sequence of start and stop calls: they are delivered in
\* the order in which the device produced their blocks, and each block is
\* delivered at most once.
C19_DeliveredInCaptureOrder ==
  \A i, j \in 1..Len(delivered) :
    i < j => delivered[i].block < delivered[j].block

\* A channel index of the constructed session that is no input channel of
\* its device.
BadChannels ==
  {i \in 1..Len(session.channels) :
     session.channels[i] < 0 \/ session.channels[i] >= session.device_channels}

\* C20: constructing a capture session with any selected channel index c
\* such that c < 0 or c >= the device's input channel count (in particular
\* c equal to the count) fails with a validation error at construction: no
\* session is running, no stream is opened, no worker is spawned, and the
\* index is not clamped into the range to make a session.
C20_BadChannelFailsConstruction ==
  (session.state # "none" /\ BadChannels # {}) =>
     /\ session.state = "ValueError"
     /\ ~running
     /\ stream = 0
     /\ process_thread = 0
     /\ \A x \in StreamIds : streams[x] = "none"
     /\ \A k \in WorkerIds : workers[k].pc = "none"

\* C20 witness: the constructor was given a channel index equal to the
\* device's channel count, and raised.
C20_IndexEqualToCountRaised ==
  /\ session.state = "ValueError"
  /\ \E i \in 1..Len(session.channels) :
       session.channels[i] = session.device_channels

\* The step is the return of caller c from the part of start that opens
\* the device.
ReturnsFromOpen(c) == ctl[c].pc = "start_open" /\ ctl'[c].pc = "idle"

\* The step has put a new, started stream into self._stream.
StreamStarted ==
  /\ stream' # 0
  /\ streams[stream'] = "none"
  /\ streams'[stream'] = "active"

\* C21: when opening or starting the device input stream fails inside
\* AudioCapture.start, the error is raised synchronously to the caller of
\* start and is not swallowed: start returns normally only with a stream
\* that was opened and started.
C21_OpenFailureRaised ==
  [][\A c \in Callers :
       ReturnsFromOpen(c) =>
         /\ ctl'[c].last \in {"started", "start_raised"}
         /\ ctl'[c].last = "start_raised" <=> ~StreamStarted]_vars

\* C21 witness: start has raised, once because the device could not be
\* opened and no stream was made.
C21_StartRaisedNoStream ==
  /\ \E c \in Callers : ctl[c].pc = "idle" /\ ctl[c].last = "start_raised"
  /\ stream = 0
  /\ \A x \in StreamIds : streams[x] = "none"

\* start_captioning has gone through its loop, or has been left by an
\* exception.
StartCaptioningOver == app.pc = "idle" /\ app.last \in {"returned", "raised"}

\* C22: in start_captioning a pipeline-level failure of one enabled feed
\* (channel not available on the device, transcriber fails to start,
\* invalid channel at capture construction, device stream failing to open
\* in capture.start) prevents only that feed from starting: every enabled
\* feed whose own start succeeds ends with a running capture and
\* transcriber.
C22_FailureStopsOnlyThatFeed ==
  StartCaptioningOver =>
    \A f \in FeedIds :
      (IsEnabledFeed(f) /\ StartFeedResult(f) = "started") =>
        (f \in captures /\ transcribers[f] = "started")

\* The texts of the captions passed to _on_caption for feed f, in order.
TextsOf(f) == [i \in 1..Len(log[f]) |-> log[f][i].text]

\* C23: delivery of a caption to the video-mixer and file sinks does not
\* depend on the fan-out channel: for every caption passed to _on_caption
\* for a registered feed, the configured vMix and file sinks receive the
\* caption text whether the web broadcast succeeds, raises or has no
\* listener, and the web failure does not propagate to FeedManager.
C23_SinksGetEveryCaption ==
  /\ \A f \in feeds :
       /\ (vmix_client /\ vmix_input[f]) => vmix_calls[f] = TextsOf(f)
       /\ file_output => file_calls[f] = TextsOf(f)
  /\ bc.last \in {"", "sent", "no_listeners", "swallowed"}

\* C23 witness: the web broadcast of a caption has raised into
\* _on_caption, and both sinks have the text of that caption.
C23_SinksFedWhileBroadcastRaised ==
  /\ bc.pc = "idle"
  /\ bc.last = "swallowed"
  /\ log["f1"] # << >>
  /\ vmix_calls["f1"] = TextsOf("f1")
  /\ file_calls["f1"] = TextsOf("f1")

\* The step is the normal end of broadcast_to_feed.
BroadcastCompletes == bc.pc = "iter" /\ bc'.pc = "idle" /\ bc'.last = "sent"

\* The listeners to which this broadcast delivered its message.
Succeeded == bc.visited \ bc.dead

\* The step is a delivery of the broadcast that failed.
SendFailed ==
  bc.pc = "iter" /\ bc.dead \subseteq bc'.dead /\ bc'.dead # bc.dead

\* Listener w has received the message of the broadcast in progress.
HasLive(w) ==
  \E i \in 1..Len(ws[w].received) :
    ws[w].received[i] = CaptionMsg(bc.caption, "live")

\* C24 as stated: after broadcast_to_feed completes for a feed, every
\* listener whose delivery failed during that broadcast is no longer in the
\* feed's listener set, every listener whose delivery succeeded is still
\* in it, and a failed delivery to one listener does not prevent delivery
\* to the others.
C24_FailedOutSucceededIn ==
  [][/\ SendFailed => bc'.pc = "iter"
     /\ BroadcastCompletes =>
          /\ \A w \in bc.dead : w \notin active_connections'[bc.feed_id]
          /\ \A w \in Succeeded :
               w \in active_connections'[bc.feed_id] /\ HasLive(w)]_vars

\* C24 amended: after broadcast_to_feed completes for a feed, every
\* listener whose delivery failed during that broadcast is no longer in the
\* feed's listener set, every listener whose delivery succeeded is still
\* in it unless its own endpoint has disconnected it during the broadcast,
\* and a failed delivery to one listener does not prevent delivery to the
\* others: the broadcast removes the failed listeners and nothing else.
C24_OnlyFailedPruned ==
  [][/\ SendFailed => bc'.pc = "iter"
     /\ BroadcastCompletes =>
          /\ \A w \in bc.dead : w \notin active_connections'[bc.feed_id]
          /\ active_connections'[bc.feed_id] =
               active_connections[bc.feed_id] \ bc.dead
          /\ \A w \in Succeeded :
               \/ w \in active_connections'[bc.feed_id] /\ HasLive(w)
               \/ ws[w].pc = "closed"]_vars

\* C24 witness: a broadcast has completed in which the delivery to one
\* listener failed and the delivery to the other succeeded: the first is
\* out of the set, the second is in it and has the message.
C24_OneFailedOneDelivered ==
  /\ bc.pc = "idle"
  /\ bc.last = "sent"
  /\ \E w, v \in Listeners :
       /\ w # v
       /\ ws[w].pc = "live"
       /\ w \in gone
       /\ w \notin active_connections["f1"]
       /\ v \in active_connections["f1"]
       /\ ws[v].received # << >>

\* The step is the state update of Feed.add_transcript, called by thread t
\* with an interim transcript.
InterimUpdate(t) ==
  /\ th[t].pc = "update"
  /\ th'[t].pc = "copy"
  /\ ~th[t].transcript.is_final

\* C25: Feed.add_transcript with a non-final (interim) transcript leaves
\* the history unchanged (same captions, same order, same length) and only
\* overwrites the single interim slot; in every reachable state every
\* caption in history has is_final true.
C25_InterimLeavesHistory ==
  /\ [](\A f \in FeedIds : \A i \in 1..Len(captions[f]) : captions[f][i].is_final)
  /\ [][\A t \in Threads :
         InterimUpdate(t) =>
           /\ captions' = captions
           /\ current_interim' = [current_interim EXCEPT ![th[t].feed_id] =
                                    SomeStr(th[t].transcript.text)]
           /\ UNCHANGED <<feeds, enabled, subscribers, global_subscribers>>]_vars

\* C25 witness: an interim transcript has been added to a feed that has a
\* history: the slot holds its text and the history is still there.
C25_InterimOverHistory ==
  /\ captions["f1"] # << >>
  /\ current_interim["f1"] = SomeStr("x")
  /\ log["f1"] # << >>
  /\ ~log["f1"][Len(log["f1"])].is_final

\* The step is a call of subscribe for a subscribed callback, or of
\* unsubscribe for a callback that is not subscribed.
NothingToDo == sub_last' # sub_last

\* C26: Feed.subscribe and Feed.unsubscribe have set semantics:
\* subscribing a callback that is already subscribed changes nothing (it
\* is still notified exactly once per caption and one unsubscribe removes
\* it), and unsubscribing a callback that is not subscribed changes
\* nothing and does not raise.
C26_SetSemantics ==
  /\ [][NothingToDo => (subscribers' = subscribers /\ ~sub_last'.raised)]_vars
  /\ [](\A t \in Threads : \A cb \in Callbacks : th[t].inv[cb] <= 1)
  /\ [][\A t \in Threads :
         LeavesFeedNotification(t) =>
           \A cb \in Callbacks :
             th[t].inv[cb] = (IF cb \in th[t].snap THEN 1 ELSE 0)]_vars
  /\ [][\A cb \in Callbacks :
         (sub_last = [op |-> "subscribe", cb |-> cb, raised |-> FALSE]
            /\ cb \in subscribers["f1"] /\ subscribers' # subscribers
            /\ subscribers'["f1"] \subseteq subscribers["f1"])
         => \E c \in subscribers["f1"] :
              subscribers'["f1"] = subscribers["f1"] \ {c}]_vars

\* C26 witness: callback "a" was subscribed a second time and has been
\* notified once by a call of add_transcript.
C26_TwiceSubscribedNotifiedOnce ==
  /\ sub_last = [op |-> "subscribe", cb |-> "a", raised |-> FALSE]
  /\ \E t \in Threads :
       /\ th[t].pc = "notify"
       /\ th[t].snap = {"a"}
       /\ th[t].todo = {}
       /\ th[t].inv["a"] = 1

\* The positions of deque d whose caption is not older than cutoff.
NotOlder(d, cutoff) == {i \in 1..Len(d) : d[i].timestamp >= cutoff}

\* r is the subsequence of d at the positions idx, in the order of d.
IsSubsequenceAt(r, d, idx) ==
  /\ Len(r) = Cardinality(idx)
  /\ \E g \in [1..Len(r) -> idx] :
       /\ \A k \in 1..Len(r) : r[k] = d[g[k]]
       /\ \A k, l \in 1..Len(r) : k < l => g[k] < g[l]

\* C27: Feed.get_history(window) returns exactly the captions of the
\* history whose timestamp is not older than (current time - window), as
\* a subsequence of the history in insertion order (oldest-inserted
\* first), and does not modify the feed.
C27_HistoryWithinWindow ==
  /\ [](got_history.feed_id # "" =>
          IsSubsequenceAt(got_history.result, got_history.deque,
                          NotOlder(got_history.deque,
                                   got_history.now - got_history.minutes)))
  /\ [][got_history' # got_history =>
          /\ got_history'.deque = captions[got_history'.feed_id]
          /\ got_history'.now = clock
          /\ UNCHANGED <<feeds, enabled, captions, current_interim,
                         subscribers, global_subscribers, log>>]_vars

\* C27 witness: get_history has returned the newer one of two captions.
C27_OneOfTwoReturned ==
  /\ Len(got_history.deque) = 2
  /\ Len(got_history.result) = 1
  /\ got_history.result[1] = got_history.deque[2]

\* The fraction v is the number x of halves.
RatIs(v, x) == v[2] > 0 /\ v[1] = v[2] * x

\* The sum of the samples of the channels chs[1..k] at one frame.
RECURSIVE SumOfSelected(_, _, _)
SumOfSelected(frame, chs, k) ==
  IF k = 0 THEN 0 ELSE SumOfSelected(frame, chs, k - 1) + frame[chs[k] + 1]

\* The worker has extracted the mono samples of the block and has not
\* yet resampled them.
Extracted == dsp = "extracted"

\* C28: for every block and every valid single-channel selection [c], the
\* mono sequence the worker extracts is the samples of channel c of that
\* block, unchanged and in frame order: as many values as the block has
\* frames, and value i is the sample of channel c at frame i.
C28_SingleChannelIdentity ==
  (Extracted /\ Len(session.channels) = 1) =>
     /\ Len(channel_data) = Len(indata)
     /\ \A i \in 1..Len(indata) :
          RatIs(channel_data[i], indata[i][session.channels[1] + 1])

\* C28 witness: the second channel alone was extracted from a block of two
\* frames in which the two channels differ.
C28_SecondChannelExtracted ==
  /\ Extracted
  /\ session.channels = <<1>>
  /\ Len(indata) = 2
  /\ indata[1][1] # indata[1][2]
  /\ indata[2][1] # indata[2][2]
  /\ indata[1][2] # indata[2][2]

\* C29: for every block and every selection of two or more valid
\* channels, the extracted mono value at each frame i is the equally
\* weighted arithmetic mean of the selected channels' samples at frame i:
\* the value times the number of selected channels is the sum of their
\* samples (samples 1.0 and 0.0 at a frame give 0.5).
C29_MultiChannelMean ==
  (Extracted /\ Len(session.channels) >= 2) =>
     /\ Len(channel_data) = Len(indata)
     /\ \A i \in 1..Len(indata) :
          /\ channel_data[i][2] > 0
          /\ channel_data[i][1] * Len(session.channels) =
               channel_data[i][2] *
                 SumOfSelected(indata[i], session.channels, Len(session.channels))

\* C29 witness: channels 0 and 1 were averaged at a frame that holds 1.0
\* and 0.0, and the value is 0.5, one half.
C29_OneAndZeroGiveHalf ==
  /\ Extracted
  /\ session.channels = <<0, 1>>
  /\ \E i \in 1..Len(indata) :
       /\ indata[i] = <<2, 0>>
       /\ RatIs(channel_data[i], 1)

\* The integers nearest to n * target_rate / orig_rate; two of them when
\* the quotient lies half way, so that either rounding of a half is taken
\* as round().
Rounded(n, orig_rate, target_rate) ==
  {len \in 0..(n * target_rate) :
     /\ 2 * len * orig_rate - 2 * n * target_rate <= orig_rate
     /\ 2 * n * target_rate - 2 * len * orig_rate <= orig_rate}

\* C30: for every input length N and every pair of rates origRate #
\* targetRate, the resampler's output length is
\* round(N / origRate * targetRate).
C30_LengthRounded ==
  (dsp = "resampled" /\ device_sample_rate # target_sample_rate) =>
     Len(channel_data) \in Rounded(Len(indata), device_sample_rate,
                                   target_sample_rate)

\* A step of FeedManager.remove_feed.
RemoveFeedReturns == removed' # removed \/ feeds' # feeds

\* A thread enters FeedManager.add_transcript for a feed id that is not
\* registered.
AddToUnregistered(t) ==
  /\ th[t].pc = "idle"
  /\ th'[t].pc # "idle"
  /\ th'[t].via = "mgr"
  /\ th'[t].feed_id \notin feeds

\* C31: FeedManager.remove_feed(id) returns True exactly when a feed with
\* that id was registered and False otherwise; after it returns,
\* get_feed(id) returns None, list_feeds does not contain that feed, and all
\* other feeds stay registered; add_transcript(id, t) for an id that is not
\* registered delivers nothing: it returns None at once, stores nothing and
\* invokes no subscriber.
C31_RemoveFeedUnregisters ==
  /\ [][RemoveFeedReturns =>
          \E id \in FeedIds :
            /\ id = removed'.feed_id
            /\ removed'.result = (id \in feeds)
            /\ get_feed(id)' = ""
            /\ id \notin list_feeds'
            /\ \A g \in FeedIds \ {id} : (g \in list_feeds') = (g \in list_feeds)]_vars
  /\ [][\A t \in Threads :
          AddToUnregistered(t) =>
            /\ th'[t].pc = "done"
            /\ th'[t].ret = NoCaption
            /\ th'[t].ginv = << >>
            /\ \A cb \in Callbacks : th'[t].inv[cb] = 0
            /\ UNCHANGED <<captions, current_interim, log>>]_vars

\* C31 witness: f1, which had delivered a caption, was removed with result
\* True while f2 stays registered, and a later add_transcript for f1, still
\* enabled, has returned None.
C31_RemovedFeedDeliversNothing ==
  /\ removed = [feed_id |-> "f1", result |-> TRUE]
  /\ feeds = {"f2"}
  /\ log["f1"] # << >>
  /\ enabled["f1"]
  /\ \E t \in Threads :
       /\ th[t].pc = "done"
       /\ th[t].via = "mgr"
       /\ th[t].feed_id = "f1"
       /\ th[t].ret = NoCaption

\* Thread t invokes a subscriber, of the feed or of the manager, in this
\* step.
InvokesSubscriber(t) ==
  \/ InvokesGlobalCallback(t)
  \/ \E cb \in Callbacks : InvokesFeedCallback(t, cb)

\* No other add_transcript has written to the feed since the call of
\* thread t did.
LastApplied(t) ==
  LET applied == log[th[t].feed_id]
  IN applied # << >> /\ applied[Len(applied)] = th[t].caption

\* The state of the feed reflects the caption of thread t.
Reflected(t) ==
  LET f == th[t].feed_id
      c == th[t].caption
  IN /\ IF c.is_final
        THEN /\ captions[f] # << >>
             /\ captions[f][Len(captions[f])] = c
             /\ current_interim[f] = NoneStr
        ELSE current_interim[f] = SomeStr(c.text)
     /\ c.text # "" => get_current_text(f) = c.text

\* C32: whenever a subscriber (feed-level or global) is invoked with a
\* caption and no other add_transcript has written to the feed since, the
\* feed's state already reflects that transcript: a final caption is the
\* last entry of the history and the interim slot is cleared, an interim
\* caption's text is in the interim slot, and get_current_text() returns
\* the caption's non-empty text.
C32_StateUpdatedBeforeNotify ==
  [][\A t \in Threads :
       (InvokesSubscriber(t) /\ LastApplied(t)) => Reflected(t)]_vars

\* C32 witness: a final caption that followed an interim one has been
\* passed to the feed's subscriber and to the global one, and it is the
\* last entry of the history.
C32_FinalAfterInterimNotified ==
  \E t \in Threads :
    /\ th[t].pc = "gnotify"
    /\ Len(th[t].ginv) = 1
    /\ th[t].inv["a"] = 1
    /\ th[t].caption.is_final
    /\ Len(log["f1"]) = 2
    /\ ~log["f1"][1].is_final
    /\ log["f1"][2] = th[t].caption
    /\ captions["f1"] = <<th[t].caption>>

\* Block b waits in the queue.
InQueue(b) == \E i \in 1..Len(audio_queue) : audio_queue[i] = b

\* Block b was passed to the consumer callback.
Delivered(b) == \E i \in 1..Len(delivered) : delivered[i].block = b

\* No block waits in the queue and no worker holds one.
NothingInFlight ==
  /\ audio_queue = << >>
  /\ \A k \in WorkerIds : workers[k].block = 0

\* The device hands a new block to _audio_callback in this step.
Receives == produced' # produced

\* C33: while a capture session stays running, every block the device
\* callback receives is eventually processed and passed to the consumer
\* callback (again and again no block is left in the queue or in a worker,
\* and a worker lets go of a block only after it passed it to the
\* consumer), and exactly once: no block is passed twice, a worker only
\* processes a block it took from the head of the queue, and a block only
\* enters the queue when the device callback receives it while the
\* session is running.  A block received while the session is not running
\* is discarded: it enters neither the queue nor a worker, so it never
\* reaches the consumer.
C33_EveryBlockOnce ==
  /\ (<>[]running) => []<>NothingInFlight
  /\ [](\A i, j \in 1..Len(delivered) :
          delivered[i].block = delivered[j].block => i = j)
  /\ [][/\ Receives =>
             IF running
             THEN audio_queue' = Append(audio_queue, produced') \/
                  (\E x \in StreamIds : <<x, produced'>> \in blocked')
             ELSE audio_queue' = audio_queue /\ blocked' = blocked
        /\ \A b \in 1..MaxBlocks :
             (InQueue(b)' /\ ~InQueue(b)) =>
                \/ running /\ produced' = b
                \/ \E x \in StreamIds : <<x, b>> \in blocked
        /\ \A k \in WorkerIds :
             (workers'[k].block # workers[k].block /\ workers'[k].block # 0) =>
                (audio_queue # << >> /\ workers'[k].block = Head(audio_queue))
        /\ \A k \in WorkerIds :
             (workers'[k].block # workers[k].block /\ workers[k].block # 0) =>
                \E b \in 1..MaxBlocks : b = workers[k].block /\ Delivered(b)'
        /\ delivered' # delivered =>
             \/ Len(delivered') = Len(delivered)
             \/ /\ Len(delivered') = Len(delivered) + 1
                /\ \E k \in WorkerIds :
                     /\ workers[k].pc = "process"
                     /\ delivered'[Len(delivered')].block = workers[k].block]_vars

\* C33 witness: the device handed over three blocks, the second after
\* stop had cleared the flag; the session was started again, the first and
\* the third block were passed to the consumer and the second is nowhere.
C33_TwoDeliveredOneDiscarded ==
  /\ running
  /\ produced = 3
  /\ Len(delivered) = 2
  /\ delivered[1].block = 1
  /\ delivered[2].block = 3
  /\ audio_queue = << >>
  /\ \A k \in WorkerIds : workers[k].block = 0

\* C34: if every device sample lies in [-1.0, 1.0], then for every
\* channel selection and every pair of native and target rates the value
\* produced by extract, resample and multiply by 32767 lies in
\* [-32767, 32767] before narrowing, so the 16-bit conversion never
\* overflows or wraps: every 16-bit sample is the scaled value without its
\* fraction.
C34_ScaledWithinInt16 ==
  /\ dsp \in {"extracted", "resampled", "converted"} =>
       \A i \in 1..Len(channel_data) :
         LET x == Scaled(channel_data[i])
         IN /\ x[2] > 0
            /\ (0 - Int16Max) * x[2] <= x[1]
            /\ x[1] <= Int16Max * x[2]
  /\ dsp = "converted" =>
       /\ Len(audio_int16) = Len(channel_data)
       /\ \A i \in 1..Len(channel_data) :
            /\ audio_int16[i] = Truncated(Scaled(channel_data[i]))
            /\ audio_int16[i] >= 0 - Int16Max
            /\ audio_int16[i] <= Int16Max

\* C34 witness: two channels were averaged and the result was resampled
\* to a higher rate; the 16-bit samples hold the greatest value, 32767,
\* and a value that the interpolation made between two input samples.
C34_FullScaleInterpolated ==
  /\ dsp = "converted"
  /\ session.channels = <<0, 1>>
  /\ device_sample_rate < target_sample_rate
  /\ Len(audio_int16) > Len(indata)
  /\ \E i \in 1..Len(audio_int16) : audio_int16[i] = Int16Max
  /\ \E i \in 1..Len(audio_int16) :
       /\ audio_int16[i] > 0
       /\ audio_int16[i] < Int16Max \div 2

\* The call of thread u stored a final caption in the feed's history after
\* the call of thread t stored its final caption.
StoredLater(u, t) ==
  /\ th[u].feed_id = th[t].feed_id
  /\ th[u].caption.is_final
  /\ th[t].caption.is_final
  /\ th[u].caption.id[2] > th[t].caption.id[2]

\* C35: when two threads call add_transcript on the same feed
\* concurrently, every subscriber observes the final captions in the order
\* in which they are stored in the feed's history: no subscriber, of the
\* feed or global, is invoked with a final caption after it was invoked
\* with a final caption stored later.
C35_ObservedInStoredOrder ==
  [][\A t \in Threads, u \in Threads :
       /\ \A cb \in Callbacks :
            (InvokesFeedCallback(t, cb) /\ th[u].inv[cb] > 0) => ~StoredLater(u, t)
       /\ InvokesGlobalCallback(t) =>
            \A i \in 1..Len(th[u].ginv) :
              th[u].ginv[i][1] = th'[t].ginv[Len(th'[t].ginv)][1] => ~StoredLater(u, t)]_vars

\* AudioCapture.is_running, lines 164-167
is_running == running

\* C36: whenever no start or stop call is in progress on a capture
\* session, is_running is true exactly when an input stream is open and a
\* processing worker is alive; in particular a session whose last start
\* failed to open the stream is Idle: is_running false, no worker, no
\* stream.
C36_RunningIffStreamAndWorker ==
  (\A c \in Callers : ctl[c].pc = "idle") =>
     /\ is_running = (OpenStreams # {} /\ AliveWorkers # {})
     /\ (\E c \in Callers : ctl[c].last = "start_raised") =>
          (~is_running /\ OpenStreams = {} /\ AliveWorkers = {})

\* A worker passes a chunk to the registered callback in this step.
PassesChunk == Len(delivered') > Len(delivered)

\* C37: every chunk passed to the callback registered by a given start
\* call derives from a block the device delivered after that start: a
\* block that the device had handed over before the callback was
\* registered, left in the queue when stop was called, is never passed to
\* the callback of a later start.
C37_ChunksFromOwnStart ==
  [][PassesChunk =>
       /\ delivered'[Len(delivered')].cb = callback
       /\ delivered'[Len(delivered')].block > start_mark]_vars

\* Thread t leaves the loop over the global subscribers in this step.
LeavesGlobalNotification(t) == th[t].pc = "gnotify" /\ th'[t].pc = "done"

\* Global callback cb was registered when the loop of thread t began and
\* no registration of it was removed since.
RegisteredThroughout(t, cb) ==
  /\ InList(th[t].glist0, cb)
  /\ Count(global_subscribers, cb) >= Count(th[t].glist0, cb)

\* C38: every global subscriber that is registered when
\* FeedManager.add_transcript starts notifying and is not itself removed is
\* invoked exactly once for that caption, also when unsubscribe_all or
\* subscribe_all is called during the notification and when the same
\* callback was passed to subscribe_all more than once.
C38_RegisteredGlobalOnce ==
  [][\A t \in Threads :
       LeavesGlobalNotification(t) =>
         \A cb \in GlobalCallbacks :
           RegisteredThroughout(t, cb) => GlobalInvocations(th[t], cb) = 1]_vars

\* The call of _start_feed for the next feed of the loop ends in this
\* step, by a return or by an exception.
StartFeedEnds == app.pc = "loop" /\ app' # app

\* C39: after StreamCaptionerApp._start_feed ends for a feed, normally or
\* by an error, the feed has a registered transcriber exactly when it has
\* a registered capture: on no failure path a started transcriber stays
\* registered for a feed that has no capture.
C39_TranscriberIffCapture ==
  [][StartFeedEnds =>
       \E f \in FeedIds :
         /\ f = Head(app.todo)
         /\ (transcribers'[f] # "none") = (f \in captures')]_vars

\* The step is the end of a broadcast that has been at a send: the frame
\* of broadcast_to_feed is left, by its return or by an exception that
\* nothing retries, after at least one send_json was awaited.
BroadcastLeft == bc.pc = "iter" /\ bc.visited # {} /\ bc'.pc = "idle"

\* C40: a broadcast to a feed's listeners that is suspended at a send is
\* not disturbed by a listener connecting to or disconnecting from the same
\* feed in the meantime: the broadcast still completes without error and
\* delivers the message to every listener that was registered when it
\* began and is still connected (every such listener is in the feed's set
\* when the broadcast ends).
C40_BroadcastUndisturbed ==
  [][BroadcastLeft =>
       /\ bc'.last = "sent"
       /\ \A w \in active_connections'[bc.feed_id] : HasLive(w)]_vars

\* ------------------------------------------------------- specifications
\* A Feed object on its own, as the tests build it: Feed("f1", ...) with
\* add_transcript called on it directly by two threads while callbacks are
\* subscribed and unsubscribed.
InitFeed ==
  /\ feeds = {"f1"}
  /\ enabled = [f \in FeedIds |-> f = "f1"]
  /\ captions = [f \in FeedIds |-> << >>]
  /\ current_interim = [f \in FeedIds |-> NoneStr]
  /\ subscribers = [f \in FeedIds |-> {}]
  /\ global_subscribers = << >>
  /\ th = [t \in Threads |-> IdleFrame]
  /\ calls = 0
  /\ clock = 0
  /\ log = [f \in FeedIds |-> << >>]
  /\ active_keys = {}
  /\ active_connections = [f \in FeedIds |-> {}]
  /\ ws = [w \in Listeners |-> NewSocket]
  /\ gone = {}
  /\ bc = IdleBroadcast
  /\ loop_set = FALSE
  /\ NoCapture
  /\ NoApp
  /\ NoCalls
  /\ NoDsp

NextFeed ==
  \/ \E cb \in Callbacks : subscribe("f1", cb)
  \/ \E cb \in Callbacks : unsubscribe("f1", cb)
  \/ \E t \in Threads, text \in Texts, fin \in BOOLEAN :
        FeedAddTranscript(t, "f1", text, fin)
  \/ \E t \in Threads : FeedUpdate(t)
  \/ \E t \in Threads : FeedCopy(t)
  \/ \E t \in Threads, cb \in Callbacks, o \in Outcomes : FeedNotify(t, cb, o)
  \/ \E t \in Threads : FeedReturn(t)
  \/ \E t \in Threads : Finish(t)

SpecFeed == InitFeed /\ [][NextFeed]_vars

\* A FeedManager holding the enabled feed "f1": a thread calls
\* FeedManager.add_transcript while callbacks are subscribed to and
\* unsubscribed from the feed and the manager (by other threads, or by a
\* callback that the call is invoking).
NextNotify ==
  \/ \E cb \in Callbacks : subscribe("f1", cb)
  \/ \E cb \in Callbacks : unsubscribe("f1", cb)
  \/ \E cb \in GlobalCallbacks : subscribe_all(cb)
  \/ \E cb \in GlobalCallbacks : unsubscribe_all(cb)
  \/ \E t \in MgrThreads, text \in MgrTexts, fin \in BOOLEAN :
        calls < MaxNotifyCalls /\ MgrAddTranscript(t, "f1", text, fin)
  \/ \E t \in MgrThreads : FeedUpdate(t)
  \/ \E t \in MgrThreads : FeedCopy(t)
  \/ \E t \in MgrThreads, cb \in Callbacks, o \in Outcomes : FeedNotify(t, cb, o)
  \/ \E t \in MgrThreads : FeedReturn(t)
  \/ \E t \in MgrThreads, o \in Outcomes : GlobalNotify(t, o)
  \/ \E t \in MgrThreads : MgrReturn(t)
  \/ \E t \in MgrThreads : Finish(t)

SpecNotify == InitFeed /\ [][NextNotify]_vars

\* A FeedManager from its construction: feeds are created, enabled and
\* disabled, a callback subscribes to feeds and one to the manager, and a
\* thread calls FeedManager.add_transcript for any feed id.
NextMgr ==
  \/ \E f \in FeedIds, en \in BOOLEAN : create_feed(f, en)
  \/ \E f \in FeedIds, en \in BOOLEAN : set_enabled(f, en)
  \/ \E f \in FeedIds, cb \in MgrCallbacks : subscribe(f, cb)
  \/ \E f \in FeedIds, cb \in MgrCallbacks : unsubscribe(f, cb)
  \/ \E cb \in MgrGlobalCallbacks : subscribe_all(cb)
  \/ \E cb \in MgrGlobalCallbacks : unsubscribe_all(cb)
  \/ \E t \in MgrThreads, f \in FeedIds, text \in MgrTexts, fin \in BOOLEAN :
        MgrAddTranscript(t, f, text, fin)
  \/ \E t \in MgrThreads : FeedUpdate(t)
  \/ \E t \in MgrThreads : FeedCopy(t)
  \/ \E t \in MgrThreads, cb \in Callbacks, o \in Outcomes : FeedNotify(t, cb, o)
  \/ \E t \in MgrThreads : FeedReturn(t)
  \/ \E t \in MgrThreads, o \in Outcomes : GlobalNotify(t, o)
  \/ \E t \in MgrThreads : MgrReturn(t)
  \/ \E t \in MgrThreads : Finish(t)

SpecMgr == Init /\ [][NextMgr]_vars

\* The application after initialize() and start_web_server(): the manager
\* holds the enabled feed "f1" and the subscriber _on_caption; listeners
\* connect to the fan-out channel while transcripts arrive and time passes.
InitWeb ==
  /\ feeds = {"f1"}
  /\ enabled = [f \in FeedIds |-> f = "f1"]
  /\ captions = [f \in FeedIds |-> << >>]
  /\ current_interim = [f \in FeedIds |-> NoneStr]
  /\ subscribers = [f \in FeedIds |-> {}]
  /\ global_subscribers = <<"on_caption">>
  /\ th = [t \in Threads |-> IdleFrame]
  /\ calls = 0
  /\ clock = 0
  /\ log = [f \in FeedIds |-> << >>]
  /\ active_keys = {}
  /\ active_connections = [f \in FeedIds |-> {}]
  /\ ws = [w \in Listeners |-> NewSocket]
  /\ gone = {}
  /\ bc = IdleBroadcast
  /\ loop_set = FALSE
  /\ NoCapture
  /\ NoApp
  /\ NoCalls
  /\ NoDsp

NextWeb ==
  \/ \E w \in ReplayListeners, f \in FeedIds : WsConnect(w, f)
  \/ \E w \in ReplayListeners : WsHistoryScan(w)
  \/ \E w \in ReplayListeners : WsHistoryMutated(w)
  \/ \E w \in ReplayListeners : WsHistoryStart(w)
  \/ \E w \in ReplayListeners : WsReplay(w)
  \/ \E w \in ReplayListeners : WsHistoryEnd(w)
  \/ \E w \in ReplayListeners : WsSendFails(w)
  \/ \E w \in ReplayListeners : ClientGone(w)
  \/ \E w \in ReplayListeners : WsDisconnect(w)
  \/ \E text \in MgrTexts, fin \in BOOLEAN : WebAddTranscript("f1", text, fin)
  \/ BroadcastBegin
  \/ \E w \in ReplayListeners : BroadcastSend(w)
  \/ BroadcastSetChanged
  \/ BroadcastEnd
  \/ Tick

SpecWeb == InitWeb /\ [][NextWeb]_vars

\* A capture session constructed for channel 0 of a device with two input
\* channels: a thread starts and stops it, the device delivers blocks, the
\* workers run.
InitCapture ==
  /\ feeds = {}
  /\ enabled = [f \in FeedIds |-> FALSE]
  /\ captions = [f \in FeedIds |-> << >>]
  /\ current_interim = [f \in FeedIds |-> NoneStr]
  /\ subscribers = [f \in FeedIds |-> {}]
  /\ global_subscribers = << >>
  /\ th = [t \in Threads |-> IdleFrame]
  /\ calls = 0
  /\ clock = 0
  /\ log = [f \in FeedIds |-> << >>]
  /\ active_keys = {}
  /\ active_connections = [f \in FeedIds |-> {}]
  /\ ws = [w \in Listeners |-> NewSocket]
  /\ gone = {}
  /\ bc = IdleBroadcast
  /\ loop_set = FALSE
  /\ session = [state |-> "ok", device_channels |-> 2, channels |-> <<0>>]
  /\ NewFields
  /\ NoApp
  /\ NoCalls
  /\ NoDsp

NextCapture ==
  \/ \E c \in CaptureCallers : StartCheck(c, FreshCallback)
  \/ \E c \in CaptureCallers : StartSet(c)
  \/ \E c \in CaptureCallers : StartSpawn(c)
  \/ \E c \in CaptureCallers, o \in OpenOutcomes : StartOpen(c, o)
  \/ \E c \in CaptureCallers : StopFlag(c)
  \/ \E c \in CaptureCallers : StopStream(c)
  \/ \E c \in CaptureCallers : StopJoin(c)
  \/ \E x \in StreamIds : AudioCallback(x)
  \/ \E k \in WorkerIds : WorkerLoop(k)
  \/ \E k \in WorkerIds : WorkerGet(k)
  \/ \E k \in WorkerIds : WorkerCall(k)
  \/ \E k \in WorkerIds, o \in Outcomes : WorkerCallReturn(k, o)

SpecCapture == InitCapture /\ [][NextCapture]_vars

\* A caller constructs a capture session for some channels of some
\* device, then starts and stops it; the device is silent.
NextCtor ==
  \/ \E n \in 1..MaxDeviceChannels, chs \in ChannelLists : AudioCaptureInit(n, chs)
  \/ \E c \in CaptureCallers : StartCheck(c, FreshCallback)
  \/ \E c \in CaptureCallers : StartSet(c)
  \/ \E c \in CaptureCallers : StartSpawn(c)
  \/ \E c \in CaptureCallers, o \in OpenOutcomes : StartOpen(c, o)
  \/ \E c \in CaptureCallers : StopFlag(c)
  \/ \E c \in CaptureCallers : StopStream(c)
  \/ \E c \in CaptureCallers : StopJoin(c)
  \/ \E k \in WorkerIds : WorkerLoop(k)
  \/ \E k \in WorkerIds : WorkerGet(k)

SpecCtor == Init /\ [][NextCtor]_vars

\* The capture session with the scheduling that the interpreter gives to
\* a worker thread: it goes on running, get returns within its timeout,
\* and the consumer callback returns or raises.
SpecCaptureFair ==
  /\ InitCapture
  /\ [][NextCapture]_vars
  /\ \A k \in WorkerIds :
       /\ WF_vars(WorkerLoop(k))
       /\ WF_vars(WorkerGet(k))
       /\ WF_vars(WorkerCall(k))
       /\ WF_vars(\E o \in Outcomes : WorkerCallReturn(k, o))


\* The application after initialize(): the feeds of the configuration are
\* registered, each with its channel, _on_caption is subscribed; the user
\* has chosen a device.  The thread made by the GUI calls start_captioning,
\* the GUI calls stop_captioning.
InitApp ==
  /\ feeds = FeedIds
  /\ enabled \in [FeedIds -> BOOLEAN]
  /\ captions = [f \in FeedIds |-> << >>]
  /\ current_interim = [f \in FeedIds |-> NoneStr]
  /\ subscribers = [f \in FeedIds |-> {}]
  /\ global_subscribers = <<"on_caption">>
  /\ th = [t \in Threads |-> IdleFrame]
  /\ calls = 0
  /\ clock = 0
  /\ log = [f \in FeedIds |-> << >>]
  /\ active_keys = {}
  /\ active_connections = [f \in FeedIds |-> {}]
  /\ ws = [w \in Listeners |-> NewSocket]
  /\ gone = {}
  /\ bc = IdleBroadcast
  /\ loop_set = FALSE
  /\ NoCapture
  /\ app_running = FALSE
  /\ captures = {}
  /\ transcribers = [f \in FeedIds |-> "none"]
  /\ app = IdleApp
  /\ channel \in [FeedIds -> ChannelIndices]
  /\ device \in 1..MaxDeviceChannels
  /\ world \in [FeedIds -> [transcriber : BOOLEAN, open : OpenOutcomes]]
  /\ vmix_client = FALSE
  /\ file_output = FALSE
  /\ vmix_input = [f \in FeedIds |-> FALSE]
  /\ vmix_calls = [f \in FeedIds |-> << >>]
  /\ file_calls = [f \in FeedIds |-> << >>]
  /\ NoCalls
  /\ NoDsp

NextApp ==
  \/ StartCaptioning
  \/ StartFeed
  \/ StopCaptioning

SpecApp == InitApp /\ [][NextApp]_vars


\* The application of InitWeb with the sinks that its configuration asks
\* for: initialize makes the vMix client and the file output or not (lines
\* 49-57), the feeds have a vMix input name or not.
InitSinks ==
  /\ feeds = {"f1"}
  /\ enabled = [f \in FeedIds |-> f = "f1"]
  /\ captions = [f \in FeedIds |-> << >>]
  /\ current_interim = [f \in FeedIds |-> NoneStr]
  /\ subscribers = [f \in FeedIds |-> {}]
  /\ global_subscribers = <<"on_caption">>
  /\ th = [t \in Threads |-> IdleFrame]
  /\ calls = 0
  /\ clock = 0
  /\ log = [f \in FeedIds |-> << >>]
  /\ active_keys = {}
  /\ active_connections = [f \in FeedIds |-> {}]
  /\ ws = [w \in Listeners |-> NewSocket]
  /\ gone = {}
  /\ bc = IdleBroadcast
  /\ loop_set = FALSE
  /\ NoCapture
  /\ app_running = FALSE
  /\ captures = {}
  /\ transcribers = [f \in FeedIds |-> "none"]
  /\ app = IdleApp
  /\ channel = [f \in FeedIds |-> 0]
  /\ device = 0
  /\ world = [f \in FeedIds |-> GoodWorld]
  /\ vmix_client \in BOOLEAN
  /\ file_output \in BOOLEAN
  /\ \E named \in BOOLEAN : vmix_input = [f \in FeedIds |-> named]
  /\ vmix_calls = [f \in FeedIds |-> << >>]
  /\ file_calls = [f \in FeedIds |-> << >>]
  /\ NoCalls
  /\ NoDsp

SpecSinks == InitSinks /\ [][NextWeb]_vars


\* The fan-out channel with two listeners and interim captions only: the
\* history of the feed stays empty, so an accepted socket goes to its
\* receive loop with nothing replayed.
NextBroadcast ==
  \/ \E w \in Listeners, f \in FeedIds : WsConnect(w, f)
  \/ \E w \in Listeners : WsHistoryScan(w)
  \/ \E w \in Listeners : WsHistoryStart(w)
  \/ \E w \in Listeners : ClientGone(w)
  \/ \E w \in Listeners : WsDisconnect(w)
  \/ \E text \in MgrTexts : WebAddTranscript("f1", text, FALSE)
  \/ BroadcastBegin
  \/ \E w \in Listeners : BroadcastSend(w)
  \/ BroadcastSetChanged
  \/ BroadcastEnd

SpecBroadcast == InitWeb /\ [][NextBroadcast]_vars


\* A feed whose clients subscribe and unsubscribe callbacks in any order,
\* also ones that are subscribed already or not subscribed, while a thread
\* adds transcripts.
NextSubs ==
  \/ \E cb \in Callbacks : subscribe("f1", cb)
  \/ \E cb \in Callbacks : unsubscribe("f1", cb)
  \/ \E cb \in Callbacks : SubscribeAgain("f1", cb)
  \/ \E cb \in Callbacks : UnsubscribeAbsent("f1", cb)
  \/ \E t \in MgrThreads, text \in MgrTexts, fin \in BOOLEAN :
        FeedAddTranscript(t, "f1", text, fin)
  \/ \E t \in MgrThreads : FeedUpdate(t)
  \/ \E t \in MgrThreads : FeedCopy(t)
  \/ \E t \in MgrThreads, cb \in Callbacks, o \in Outcomes : FeedNotify(t, cb, o)
  \/ \E t \in MgrThreads : FeedReturn(t)
  \/ \E t \in MgrThreads : Finish(t)

SpecSubs == InitFeed /\ [][NextSubs]_vars


\* A feed without subscribers: two threads add transcripts, time passes,
\* clients ask for the history.
NextHistory ==
  \/ \E t \in Threads, text \in MgrTexts, fin \in BOOLEAN :
        FeedAddTranscript(t, "f1", text, fin)
  \/ \E t \in Threads : FeedUpdate(t)
  \/ \E t \in Threads : FeedCopy(t)
  \/ \E t \in Threads : FeedReturn(t)
  \/ \E t \in Threads : Finish(t)
  \/ Tick
  \/ \E minutes \in Windows : GetHistory("f1", minutes)

SpecHistory == InitFeed /\ [][NextHistory]_vars


\* Everything but the signal path, as after construction.
NoProgram ==
  /\ feeds = {}
  /\ enabled = [f \in FeedIds |-> FALSE]
  /\ captions = [f \in FeedIds |-> << >>]
  /\ current_interim = [f \in FeedIds |-> NoneStr]
  /\ subscribers = [f \in FeedIds |-> {}]
  /\ global_subscribers = << >>
  /\ th = [t \in Threads |-> IdleFrame]
  /\ calls = 0
  /\ clock = 0
  /\ log = [f \in FeedIds |-> << >>]
  /\ active_keys = {}
  /\ active_connections = [f \in FeedIds |-> {}]
  /\ ws = [w \in Listeners |-> NewSocket]
  /\ gone = {}
  /\ bc = IdleBroadcast
  /\ loop_set = FALSE
  /\ NewFields
  /\ NoApp
  /\ NoCalls

\* The worker of a session constructed for some valid channels of some
\* device has taken a block from the queue; the device runs at the target
\* rate.
InitExtract ==
  /\ NoProgram
  /\ \E dc \in 1..MaxDeviceChannels :
       \E chs \in {l \in ChannelLists : ChannelsValid(l, dc)} :
         /\ session = [state |-> "ok", device_channels |-> dc, channels |-> chs]
         /\ \E n \in 1..MaxFrames : indata \in Blocks(n, dc)
  /\ channel_data = << >>
  /\ audio_int16 = << >>
  /\ dsp = "got"
  /\ device_sample_rate = 1
  /\ target_sample_rate = 1

NextDsp ==
  \/ Extract
  \/ Resample
  \/ Convert

SpecExtract == InitExtract /\ [][NextDsp]_vars

\* The worker of a session constructed for the one channel of a device
\* has taken a block from the queue; the device and the target have any
\* rates.
InitResample ==
  /\ NoProgram
  /\ session = [state |-> "ok", device_channels |-> 1, channels |-> <<0>>]
  /\ \E n \in 1..MaxFrames : indata \in Blocks(n, 1)
  /\ channel_data = << >>
  /\ audio_int16 = << >>
  /\ dsp = "got"
  /\ device_sample_rate \in 1..MaxRate
  /\ target_sample_rate \in 1..MaxRate

SpecResample == InitResample /\ [][NextDsp]_vars


\* A FeedManager whose feeds were created enabled, with a subscriber on each
\* feed and a global one: feeds are removed while a thread calls
\* FeedManager.add_transcript for any feed id.
InitRemove ==
  /\ feeds \in SUBSET FeedIds
  /\ enabled = [f \in FeedIds |-> f \in feeds]
  /\ captions = [f \in FeedIds |-> << >>]
  /\ current_interim = [f \in FeedIds |-> NoneStr]
  /\ subscribers = [f \in FeedIds |-> IF f \in feeds THEN MgrCallbacks ELSE {}]
  /\ global_subscribers = <<"g">>
  /\ th = [t \in Threads |-> IdleFrame]
  /\ calls = 0
  /\ clock = 0
  /\ log = [f \in FeedIds |-> << >>]
  /\ active_keys = {}
  /\ active_connections = [f \in FeedIds |-> {}]
  /\ ws = [w \in Listeners |-> NewSocket]
  /\ gone = {}
  /\ bc = IdleBroadcast
  /\ loop_set = FALSE
  /\ NoCapture
  /\ NoApp
  /\ NoCalls
  /\ NoDsp

NextRemove ==
  \/ \E f \in FeedIds : remove_feed(f)
  \/ \E t \in MgrThreads, f \in FeedIds, text \in MgrTexts, fin \in BOOLEAN :
        MgrAddTranscript(t, f, text, fin)
  \/ \E t \in MgrThreads : FeedUpdate(t)
  \/ \E t \in MgrThreads : FeedCopy(t)
  \/ \E t \in MgrThreads, cb \in Callbacks, o \in Outcomes : FeedNotify(t, cb, o)
  \/ \E t \in MgrThreads : FeedReturn(t)
  \/ \E t \in MgrThreads, o \in Outcomes : GlobalNotify(t, o)
  \/ \E t \in MgrThreads : MgrReturn(t)
  \/ \E t \in MgrThreads : Finish(t)

SpecRemove == InitRemove /\ [][NextRemove]_vars


\* A FeedManager holding the enabled feed "f1", a subscriber of the feed
\* and a global one: two threads call FeedManager.add_transcript for it.
InitShared ==
  /\ feeds = {"f1"}
  /\ enabled = [f \in FeedIds |-> f = "f1"]
  /\ captions = [f \in FeedIds |-> << >>]
  /\ current_interim = [f \in FeedIds |-> NoneStr]
  /\ subscribers = [f \in FeedIds |-> IF f = "f1" THEN MgrCallbacks ELSE {}]
  /\ global_subscribers = <<"g">>
  /\ th = [t \in Threads |-> IdleFrame]
  /\ calls = 0
  /\ clock = 0
  /\ log = [f \in FeedIds |-> << >>]
  /\ active_keys = {}
  /\ active_connections = [f \in FeedIds |-> {}]
  /\ ws = [w \in Listeners |-> NewSocket]
  /\ gone = {}
  /\ bc = IdleBroadcast
  /\ loop_set = FALSE
  /\ NoCapture
  /\ NoApp
  /\ NoCalls
  /\ NoDsp

NextShared ==
  \/ \E t \in Threads, text \in Texts, fin \in BOOLEAN :
        MgrAddTranscript(t, "f1", text, fin)
  \/ \E t \in Threads : FeedUpdate(t)
  \/ \E t \in Threads : FeedCopy(t)
  \/ \E t \in Threads, cb \in Callbacks, o \in Outcomes : FeedNotify(t, cb, o)
  \/ \E t \in Threads : FeedReturn(t)
  \/ \E t \in Threads, o \in Outcomes : GlobalNotify(t, o)
  \/ \E t \in Threads : MgrReturn(t)
  \/ \E t \in Threads : Finish(t)

SpecShared == InitShared /\ [][NextShared]_vars


\* The capture session with the scheduling that the interpreter gives to
\* its threads: a worker goes on running, and so does a thread that is
\* inside start or stop.
SpecCaptureLive ==
  /\ InitCapture
  /\ [][NextCapture]_vars
  /\ \A k \in WorkerIds :
       /\ WF_vars(WorkerLoop(k))
       /\ WF_vars(WorkerGet(k))
       /\ WF_vars(WorkerCall(k))
       /\ WF_vars(\E o \in Outcomes : WorkerCallReturn(k, o))
  /\ \A c \in CaptureCallers :
       /\ WF_vars(StartSet(c))
       /\ WF_vars(StartSpawn(c))
       /\ WF_vars(\E o \in OpenOutcomes : StartOpen(c, o))
       /\ WF_vars(StopStream(c))
       /\ WF_vars(StopJoin(c))


\* The worker of a session constructed for some valid channels of some
\* device has taken a block from the queue; the device and the target have
\* any rates.  The channels that are not selected are silent: no step
\* reads them.
InitPipeline ==
  /\ NoProgram
  /\ \E dc \in 1..MaxDeviceChannels :
       \E chs \in {l \in ChannelLists : ChannelsValid(l, dc)} :
         /\ session = [state |-> "ok", device_channels |-> dc, channels |-> chs]
         /\ \E n \in 1..MaxFrames :
              indata \in {b \in Blocks(n, dc) :
                            \A i \in 1..n, c \in 1..dc :
                              (\A k \in 1..Len(chs) : chs[k] + 1 # c) => b[i][c] = 0}
  /\ channel_data = << >>
  /\ audio_int16 = << >>
  /\ dsp = "got"
  /\ device_sample_rate \in 1..MaxRate
  /\ target_sample_rate \in 1..MaxRate

SpecPipeline == InitPipeline /\ [][NextDsp]_vars

====
